---- MODULE Spec2Model ----
(***************************************************************************)
(* A model of the tinyfinder search service: the name validation of        *)
(* src/validation.rs, the search engine of src/src/search.rs (handle       *)
(* cache, writer, per-operation readers, synonym and pinned-rule stores,   *)
(* query compilation, fallback, sorting, pinning, hydration) and the       *)
(* request handlers of src/src/handlers.rs that call them.                 *)
(*                                                                         *)
(* Strings are sequences of one-character strings, so that the character   *)
(* level functions of the code (lowercasing, splitting, searching for a    *)
(* substring) are computed and not assumed.                                *)
(***************************************************************************)
EXTENDS Integers, Sequences, FiniteSets, TLC

VARIABLES
    nm,          \* SpecName: the index name handed to validate_index_name
    nmStatus,    \* SpecName: 0 before the call, then the HTTP status (200 / 400)
    indices,     \* SearchEngine.indices: index name -> IndexHandle
    disk,        \* base_path: index name -> the schema and the committed documents
    pinned_rules, \* SearchEngine.pinned_rules: index name -> list of PinnedRule
    synonyms,    \* SearchEngine.synonyms: index name -> list of SynonymGroup
    files,       \* base_path: the side-car files synonyms.json and pinned_rules.json
    client,      \* the sequential caller: what it has chosen and where it stands
    replies,     \* the requests the caller has completed, with what they returned
    threads,     \* Spec: each request thread's position in the engine call it runs
    locks,       \* Spec: who holds SearchEngine.indices and the writer of "books"
    commits,     \* Spec: the commit counter of "books" and the commit before the last
    acked,       \* Spec: what the calls that have returned so far have made known
    metadata_store \* AppState.metadata_store: the tables indices and documents

nameVars == <<nm, nmStatus>>
engineVars == <<indices, disk, pinned_rules, synonyms, files>>
clientVars == <<client, replies>>
threadVars == <<threads, locks, commits, acked>>
storeVars == <<metadata_store>>

vars == <<nm, nmStatus, indices, disk, pinned_rules, synonyms, files, client, replies,
          threads, locks, commits, acked, metadata_store>>

(***************************************************************************)
(* Characters and strings                                                  *)
(***************************************************************************)
LowerSeq ==
    <<"a", "b", "c", "d", "e", "f", "g", "h", "i", "j", "k", "l", "m",
      "n", "o", "p", "q", "r", "s", "t", "u", "v", "w", "x", "y", "z">>
UpperSeq ==
    <<"A", "B", "C", "D", "E", "F", "G", "H", "I", "J", "K", "L", "M",
      "N", "O", "P", "Q", "R", "S", "T", "U", "V", "W", "X", "Y", "Z">>

Range(f) == {f[i] : i \in DOMAIN f}

LowerLetters == Range(LowerSeq)
UpperLetters == Range(UpperSeq)
Digits == {"0", "1", "2", "3", "4", "5", "6", "7", "8", "9"}

\* The non-ASCII letters of the model, named by their code points (a with ring,
\* ae, e with acute): alphabetic, lowercase, two bytes each in UTF-8.
NonAsciiLetters == {"U+E5", "U+E6", "U+E9"}

\* char::is_ascii_alphabetic, as the class [a-zA-Z] of the pattern reads it
IsAsciiLetter(c) == c \in LowerLetters \cup UpperLetters

IsAsciiDigit(c) == c \in Digits

\* char::is_alphanumeric
is_alphanumeric(c) == IsAsciiLetter(c) \/ IsAsciiDigit(c) \/ c \in NonAsciiLetters

\* char::is_whitespace
is_whitespace(c) == c \in {" ", "\t"}

\* The number of bytes of a character in UTF-8 (str::len counts bytes).
Utf8Len(c) == IF c \in NonAsciiLetters THEN 2 ELSE 1

RECURSIVE ByteLen(_)
ByteLen(s) == IF s = <<>> THEN 0 ELSE Utf8Len(Head(s)) + ByteLen(Tail(s))

to_lowercase_char(c) ==
    IF c \in UpperLetters THEN LowerSeq[CHOOSE i \in DOMAIN UpperSeq : UpperSeq[i] = c] ELSE c

to_uppercase_char(c) ==
    IF c \in LowerLetters THEN UpperSeq[CHOOSE i \in DOMAIN LowerSeq : LowerSeq[i] = c] ELSE c

\* str::to_lowercase, str::to_uppercase
to_lowercase(s) == [i \in DOMAIN s |-> to_lowercase_char(s[i])]
to_uppercase(s) == [i \in DOMAIN s |-> to_uppercase_char(s[i])]

to_lowercase_all(strs) == [k \in DOMAIN strs |-> to_lowercase(strs[k])]

\* str::contains(pattern); the empty pattern is contained in every string
contains(s, sub) ==
    \E i \in 1..(Len(s) - Len(sub) + 1) : SubSeq(s, i, i + Len(sub) - 1) = sub

\* str::find(pattern): the first position (from 1) of the pattern, 0 for None
find(s, sub) ==
    IF contains(s, sub)
    THEN CHOOSE i \in 1..(Len(s) - Len(sub) + 1) :
            /\ SubSeq(s, i, i + Len(sub) - 1) = sub
            /\ \A j \in 1..(i - 1) : SubSeq(s, j, j + Len(sub) - 1) # sub
    ELSE 0

starts_with(s, pre) == Len(s) >= Len(pre) /\ SubSeq(s, 1, Len(pre)) = pre
ends_with(s, suf) == Len(s) >= Len(suf) /\ SubSeq(s, Len(s) - Len(suf) + 1, Len(s)) = suf

RECURSIVE trim_start(_)
trim_start(s) == IF s # <<>> /\ is_whitespace(Head(s)) THEN trim_start(Tail(s)) ELSE s

RECURSIVE trim_end(_)
trim_end(s) ==
    IF s # <<>> /\ is_whitespace(s[Len(s)]) THEN trim_end(SubSeq(s, 1, Len(s) - 1)) ELSE s

\* str::trim
trim(s) == trim_end(trim_start(s))

\* str::split(char): the pieces between the separators, empty pieces kept
RECURSIVE split_from(_, _, _, _)
split_from(s, sep, i, cur) ==
    IF i > Len(s) THEN <<cur>>
    ELSE IF s[i] = sep THEN <<cur>> \o split_from(s, sep, i + 1, <<>>)
    ELSE split_from(s, sep, i + 1, Append(cur, s[i]))

split(s, sep) == split_from(s, sep, 1, <<>>)

\* str::split_whitespace: the non-empty maximal runs of non-whitespace characters
RECURSIVE split_ws_from(_, _, _)
split_ws_from(s, i, cur) ==
    IF i > Len(s) THEN (IF cur = <<>> THEN <<>> ELSE <<cur>>)
    ELSE IF is_whitespace(s[i])
         THEN (IF cur = <<>> THEN <<>> ELSE <<cur>>) \o split_ws_from(s, i + 1, <<>>)
    ELSE split_ws_from(s, i + 1, Append(cur, s[i]))

split_whitespace(s) == split_ws_from(s, 1, <<>>)

\* [String]::join(sep)
RECURSIVE join(_, _)
join(parts, sep) ==
    IF parts = <<>> THEN <<>>
    ELSE IF Len(parts) = 1 THEN parts[1]
    ELSE parts[1] \o sep \o join(Tail(parts), sep)

\* The first position of an element in a sequence, 0 when it does not occur
position(s, x) ==
    IF \E i \in DOMAIN s : s[i] = x
    THEN CHOOSE i \in DOMAIN s : s[i] = x /\ \A j \in 1..(i - 1) : s[j] # x
    ELSE 0

Min(a, b) == IF a <= b THEN a ELSE b

\* Vec::truncate / Iterator::take
take(s, n) == SubSeq(s, 1, Min(n, Len(s)))

\* The mutant of skip: nothing is skipped.
skip_nothing(s, n) == s

\* Iterator::skip
skip(s, n) == SubSeq(s, n + 1, Len(s))

(***************************************************************************)
(* src/validation.rs                                                       *)
(***************************************************************************)
MAX_INDEX_NAME_LENGTH == 64

\* Regex ^[a-zA-Z][a-zA-Z0-9_-]*$ (no multi-line flag: $ is the end of the text)
INDEX_NAME_PATTERN_is_match(name) ==
    /\ Len(name) >= 1
    /\ IsAsciiLetter(name[1])
    /\ \A i \in 2..Len(name) :
          IsAsciiLetter(name[i]) \/ IsAsciiDigit(name[i]) \/ name[i] \in {"_", "-"}

\* The mutant of the length check: >= for >.
validate_index_name_off_by_one(name) ==
    IF name = <<>> THEN 400
    ELSE IF ByteLen(name) >= MAX_INDEX_NAME_LENGTH THEN 400
    ELSE IF ~INDEX_NAME_PATTERN_is_match(name) THEN 400
    ELSE IF contains(name, <<".", ".">>) \/ contains(name, <<"/">>) \/ contains(name, <<"\\">>)
         THEN 400
    ELSE 200

\* validate_index_name: Ok(()) is 200, every Err is StatusCode::BAD_REQUEST.
validate_index_name(name) ==
    IF name = <<>> THEN 400
    ELSE IF ByteLen(name) > MAX_INDEX_NAME_LENGTH THEN 400
    ELSE IF ~INDEX_NAME_PATTERN_is_match(name) THEN 400
    ELSE IF contains(name, <<".", ".">>) \/ contains(name, <<"/">>) \/ contains(name, <<"\\">>)
         THEN 400
    ELSE 200

(***************************************************************************)
(* src/src/search.rs: operators, synonym expansion, pinned lookup          *)
(***************************************************************************)
\* is_operator: the word, uppercased, is one of AND, OR, NOT, TO
is_operator(word) ==
    to_uppercase(word) \in {<<"A", "N", "D">>, <<"O", "R">>, <<"N", "O", "T">>, <<"T", "O">>}

\* The mutant of expand_with_synonyms: the terms of the group are returned as
\* stored, the queried term is not looked up in lowercase.
expand_with_synonyms_case_sensitive(groups, term) ==
    IF \E g \in DOMAIN groups : \E k \in DOMAIN groups[g].terms : groups[g].terms[k] = term
    THEN LET g == CHOOSE g \in DOMAIN groups :
                    /\ \E k \in DOMAIN groups[g].terms : groups[g].terms[k] = term
                    /\ \A h \in 1..(g - 1) :
                          \A k \in DOMAIN groups[h].terms : groups[h].terms[k] # term
         IN  groups[g].terms
    ELSE <<term>>

\* expand_with_synonyms, on the groups stored for the index (the empty list when
\* the index has none): the lowercased terms of the first group that holds the
\* term, compared in lowercase; the lowercased term alone when no group does.
expand_with_synonyms(groups, term) ==
    LET term_lower == to_lowercase(term)
        holds(g) == \E k \in DOMAIN groups[g].terms :
                        to_lowercase(groups[g].terms[k]) = term_lower
    IN  IF \E g \in DOMAIN groups : holds(g)
        THEN LET g == CHOOSE g \in DOMAIN groups :
                        holds(g) /\ \A h \in 1..(g - 1) : ~holds(h)
             IN  [k \in DOMAIN groups[g].terms |-> to_lowercase(groups[g].terms[k])]
        ELSE <<term_lower>>

\* The body both word branches of expand_query_with_synonyms share: a boolean
\* operator and a word with ':', '*' or '?' are pushed as they are, any other
\* word is replaced by its expansion.
expand_word(groups, current_word) ==
    IF \/ is_operator(current_word)
       \/ contains(current_word, <<":">>)
       \/ contains(current_word, <<"*">>)
       \/ contains(current_word, <<"?">>)
    THEN current_word
    ELSE LET expanded == expand_with_synonyms(groups, current_word)
         IN  IF Len(expanded) > 1
             THEN <<"(">> \o join(expanded, <<" ", "O", "R", " ">>) \o <<")">>
             ELSE expanded[1]

\* The character loop of expand_query_with_synonyms, from position i.
RECURSIVE expand_chars(_, _, _, _, _, _)
expand_chars(groups, query_str, i, result, in_quotes, current_word) ==
    IF i > Len(query_str)
    THEN IF current_word # <<>> THEN result \o expand_word(groups, current_word) ELSE result
    ELSE LET ch == query_str[i]
         IN  IF ch = "\""
             THEN expand_chars(groups, query_str, i + 1, Append(result, ch),
                               ~in_quotes, current_word)
             ELSE IF is_whitespace(ch) /\ ~in_quotes
             THEN expand_chars(groups, query_str, i + 1,
                               Append(IF current_word # <<>>
                                      THEN result \o expand_word(groups, current_word)
                                      ELSE result, ch),
                               in_quotes, <<>>)
             ELSE expand_chars(groups, query_str, i + 1, result, in_quotes,
                               Append(current_word, ch))

\* expand_query_with_synonyms
expand_query_with_synonyms(groups, query_str) ==
    expand_chars(groups, query_str, 1, <<>>, FALSE, <<>>)

\* get_pinned_doc_ids, on the rules stored for the index: the id list of the first
\* rule one of whose triggers, lowercased, occurs in the lowercased query.
get_pinned_doc_ids(index_rules, query_str) ==
    LET query_lower == to_lowercase(query_str)
        hit(r) == \E k \in DOMAIN index_rules[r].queries :
                      contains(query_lower, to_lowercase(index_rules[r].queries[k]))
    IN  IF \E r \in DOMAIN index_rules : hit(r)
        THEN index_rules[CHOOSE r \in DOMAIN index_rules :
                             hit(r) /\ \A q \in 1..(r - 1) : ~hit(q)].document_ids
        ELSE <<>>

(***************************************************************************)
(* src/src/search.rs: the keyword fallback                                 *)
(***************************************************************************)
stopwords == {
    <<"h", "v", "a">>, <<"h", "v", "e", "m">>, <<"h", "v", "o", "r">>,
    <<"h", "v", "i", "l", "k", "e", "n">>, <<"h", "v", "i", "l", "k", "e">>,
    <<"h", "v", "o", "r", "d", "a", "n">>, <<"n", "U+E5", "r">>,
    <<"h", "v", "o", "r", "f", "o", "r">>, <<"w", "h", "a", "t">>, <<"w", "h", "o">>,
    <<"w", "h", "e", "r", "e">>, <<"w", "h", "i", "c", "h">>, <<"h", "o", "w">>,
    <<"w", "h", "e", "n">>, <<"w", "h", "y">>, <<"e", "r">>, <<"v", "a", "r">>,
    <<"b", "l", "i">>, <<"b", "l", "i", "r">>, <<"v", "U+E6", "r", "e">>, <<"o", "g">>,
    <<"e", "l", "l", "e", "r">>, <<"f", "o", "r">>, <<"a", "v">>, <<"t", "i", "l">>,
    <<"m", "e", "d">>, <<"i">>, <<"p", "U+E5">>, <<"o", "m">>, <<"s", "o", "m">>,
    <<"e", "n">>, <<"e", "t">>, <<"d", "e", "n">>, <<"d", "e", "t">>, <<"d", "e">>,
    <<"d", "u">>, <<"j", "e", "g">>, <<"v", "i">>, <<"o", "s", "s">>
}

\* An Option<String>
None == [some |-> FALSE, v |-> <<>>]
Some(x) == [some |-> TRUE, v |-> x]

\* fallback_query_string: lowercase, every character that is not alphanumeric,
\* '_' or '-' becomes a space, the tokens longer than one byte that are no stop
\* word are joined by a space; None when no token is left.
fallback_query_string(query_str) ==
    LET lower == to_lowercase(query_str)
        cleaned == [i \in DOMAIN lower |->
                        IF is_alphanumeric(lower[i]) \/ lower[i] \in {"_", "-"}
                        THEN lower[i] ELSE " "]
        keep(token) == ByteLen(token) > 1 /\ token \notin stopwords
        tokens == SelectSeq(split_whitespace(cleaned), keep)
    IN  IF tokens = <<>> THEN None ELSE Some(join(tokens, <<" ">>))

(***************************************************************************)
(* src/src/search.rs: schemas, handles, field configurations               *)
(*                                                                         *)
(* A field configuration is the FieldConfig of src/src/models.rs. A schema *)
(* entry holds what the segment store keeps of a field: its kind, whether  *)
(* it is stored, its indexing (tokenizer and record option for a Str or    *)
(* JsonObject field, the indexed flag for a numeric or date field), its    *)
(* fast flag and, for a JsonObject field, expand_dots.                     *)
(***************************************************************************)
F_id == <<"i", "d">>

FieldConfig(name, field_type, stored, indexed, analyzer, fast) ==
    [name |-> name, field_type |-> field_type, stored |-> stored,
     indexed |-> indexed, analyzer |-> analyzer, fast |-> fast]

Entry(name, kind, stored, indexed, tokenizer, index_option, fast, expand_dots) ==
    [name |-> name, kind |-> kind, stored |-> stored, indexed |-> indexed,
     tokenizer |-> tokenizer, index_option |-> index_option, fast |-> fast,
     expand_dots |-> expand_dots]

\* STRING | STORED: raw tokenizer, basic indexing, stored
STRING_STORED(name) == Entry(name, "Str", TRUE, TRUE, "raw", "Basic", FALSE, FALSE)

SupportedTypes == {"text", "string", "i64", "f64", "date", "json"}

\* The schema entry create_index builds for one field configuration.
schema_entry(fc) ==
    CASE fc.field_type = "text" ->
            IF fc.indexed
            THEN Entry(fc.name, "Str", fc.stored, TRUE,
                       IF fc.analyzer \in {"norwegian", "raw"} THEN fc.analyzer ELSE "default",
                       "WithFreqsAndPositions", FALSE, FALSE)
            ELSE Entry(fc.name, "Str", fc.stored, FALSE, "", "", FALSE, FALSE)
      [] fc.field_type = "string" ->
            IF fc.indexed
            THEN STRING_STORED(fc.name)
            ELSE Entry(fc.name, "Str", TRUE, FALSE, "", "", FALSE, FALSE)
      [] fc.field_type = "i64" ->
            Entry(fc.name, "I64", fc.stored, fc.indexed, "", "", fc.fast, FALSE)
      [] fc.field_type = "f64" ->
            Entry(fc.name, "F64", fc.stored, fc.indexed, "", "", fc.fast, FALSE)
      [] fc.field_type = "date" ->
            Entry(fc.name, "Date", fc.stored, fc.indexed, "", "", fc.fast, FALSE)
      [] fc.field_type = "json" ->
            IF fc.indexed
            THEN Entry(fc.name, "JsonObject", fc.stored, TRUE, "default",
                       "WithFreqsAndPositions", FALSE, fc.fast)
            ELSE Entry(fc.name, "JsonObject", fc.stored, FALSE, "", "", FALSE, fc.fast)

\* The schema create_index builds: the id field, then the declared fields in
\* declaration order. An unsupported type fails the call before anything is made.
create_index_schema(fields) ==
    IF \E k \in DOMAIN fields : fields[k].field_type \notin SupportedTypes
    THEN [ok |-> FALSE, schema |-> <<>>]
    ELSE [ok |-> TRUE,
          schema |-> <<STRING_STORED(F_id)>> \o [k \in DOMAIN fields |-> schema_entry(fields[k])]]

\* The mutant of field_configs_from_schema: every rebuilt configuration is fast.
field_configs_from_schema_all_fast(schema) ==
    LET rest == SelectSeq(schema, LAMBDA e : e.name # F_id)
    IN  [k \in DOMAIN rest |->
            FieldConfig(rest[k].name, "i64", rest[k].stored, rest[k].indexed, "default", TRUE)]

\* field_configs_from_schema: the configurations load_indices gives a handle it
\* rebuilds from the schema on disk. The id field is skipped.
field_configs_from_schema(schema) ==
    LET rest == SelectSeq(schema, LAMBDA e : e.name # F_id)
        config(e) ==
            CASE e.kind = "Str" ->
                    IF e.indexed
                    THEN FieldConfig(e.name,
                                     IF e.tokenizer = "raw" /\ e.index_option = "Basic"
                                     THEN "string" ELSE "text",
                                     e.stored, TRUE, e.tokenizer, FALSE)
                    ELSE FieldConfig(e.name, "text", e.stored, FALSE, "default", FALSE)
              [] e.kind = "I64" ->
                    FieldConfig(e.name, "i64", e.stored, e.indexed, "default", e.fast)
              [] e.kind = "F64" ->
                    FieldConfig(e.name, "f64", e.stored, e.indexed, "default", e.fast)
              [] e.kind = "Date" ->
                    FieldConfig(e.name, "date", e.stored, e.indexed, "default", e.fast)
              [] e.kind = "JsonObject" ->
                    FieldConfig(e.name, "json", e.stored, e.indexed, "default", e.expand_dots)
    IN  [k \in DOMAIN rest |-> config(rest[k])]

\* An IndexHandle: the schema and the declared field configurations. The
\* field_map is the schema read by name.
IndexHandle(schema, field_configs) == [schema |-> schema, field_configs |-> field_configs]

\* handle.field_map.contains_key(name)
has_field(handle, name) == \E k \in DOMAIN handle.schema : handle.schema[k].name = name

\* handle.schema.get_field_entry(field_map[name])
field_entry(handle, name) ==
    handle.schema[CHOOSE k \in DOMAIN handle.schema : handle.schema[k].name = name]

\* handle.field_configs.iter().find(|fc| fc.name == name): 0 for None
find_config(handle, name) ==
    IF \E k \in DOMAIN handle.field_configs : handle.field_configs[k].name = name
    THEN CHOOSE k \in DOMAIN handle.field_configs :
            /\ handle.field_configs[k].name = name
            /\ \A j \in 1..(k - 1) : handle.field_configs[j].name # name
    ELSE 0

(***************************************************************************)
(* Documents and values                                                    *)
(*                                                                         *)
(* A JSON value (serde_json::Value) and a value of the segment store       *)
(* (OwnedValue) are records [t, s, n]: the tag, the text of a string, the  *)
(* number of a number, boolean (0 / 1), date (Unix seconds) or the name of *)
(* an object or array taken as a whole. A fractional number holds tenths.  *)
(***************************************************************************)
JString(s) == [t |-> "String", s |-> s, n |-> 0]
JInt(n) == [t |-> "Int", s |-> <<>>, n |-> n]
JFloat(tenths) == [t |-> "Float", s |-> <<>>, n |-> tenths]
JBool(b) == [t |-> "Bool", s |-> <<>>, n |-> IF b THEN 1 ELSE 0]
JObject(k) == [t |-> "Object", s |-> <<>>, n |-> k]
JArray(k) == [t |-> "Array", s |-> <<>>, n |-> k]
JNull == [t |-> "Null", s |-> <<>>, n |-> 0]

OStr(s) == [t |-> "Str", s |-> s, n |-> 0]
OI64(n) == [t |-> "I64", s |-> <<>>, n |-> n]
OF64(tenths) == [t |-> "F64", s |-> <<>>, n |-> tenths]
ODate(secs) == [t |-> "Date", s |-> <<>>, n |-> secs]
OBool(n) == [t |-> "Bool", s |-> <<>>, n |-> n]
OObject(k) == [t |-> "Object", s |-> <<>>, n |-> k]
OArray(k) == [t |-> "Array", s |-> <<>>, n |-> k]
ONull == [t |-> "Null", s |-> <<>>, n |-> 0]

\* A Document of src/src/models.rs: the id and the fields, a sequence of
\* [name, value] with distinct names, in the order the map is iterated.
Document(id, fields) == [id |-> id, fields |-> fields]
FieldValue(name, value) == [name |-> name, value |-> value]

DigitSeq == <<"0", "1", "2", "3", "4", "5", "6", "7", "8", "9">>

\* Two digits of a number below 100
TwoDigits(n) == <<DigitSeq[(n \div 10) + 1], DigitSeq[(n % 10) + 1]>>

\* The RFC 3339 texts the model's documents use, all within the first minute of
\* 1970: second SS at UTC, and the same instant written at +01:00.
Rfc3339Utc(secs) == <<"1", "9", "7", "0", "-", "0", "1", "-", "0", "1", "T", "0", "0", ":", "0", "0", ":">> \o TwoDigits(secs) \o <<"Z">>
Rfc3339Plus1(secs) == <<"1", "9", "7", "0", "-", "0", "1", "-", "0", "1", "T", "0", "1", ":", "0", "0", ":">> \o TwoDigits(secs) \o <<"+", "0", "1", ":", "0", "0">>

\* chrono::DateTime::parse_from_rfc3339(text).timestamp(): None for any other text
parse_from_rfc3339(text) ==
    IF \E n \in 0..59 : text = Rfc3339Utc(n)
    THEN [some |-> TRUE, v |-> CHOOSE n \in 0..59 : text = Rfc3339Utc(n)]
    ELSE IF \E n \in 0..59 : text = Rfc3339Plus1(n)
    THEN [some |-> TRUE, v |-> CHOOSE n \in 0..59 : text = Rfc3339Plus1(n)]
    ELSE [some |-> FALSE, v |-> 0]

\* d.into_utc().to_string(), for an instant within the first minute of 1970
utc_string(secs) == <<"1", "9", "7", "0", "-", "0", "1", "-", "0", "1", " ", "0", ":", "0", "0", ":">> \o TwoDigits(secs) \o <<".", "0", " ", "+", "0", "0", ":", "0", "0", ":", "0", "0">>

\* OwnedValue::from(serde_json::Value)
owned_from_json(value) ==
    CASE value.t = "String" -> OStr(value.s)
      [] value.t = "Int" -> OI64(value.n)
      [] value.t = "Float" -> OF64(value.n)
      [] value.t = "Bool" -> OBool(value.n)
      [] value.t = "Object" -> OObject(value.n)
      [] value.t = "Array" -> OArray(value.n)
      [] value.t = "Null" -> ONull

\* The values add_documents adds to the segment-store document for one field of
\* the request document: none when the field is not in the schema, when a date
\* does not parse, or when the JSON kind has no arm.
field_values_added(handle, fv) ==
    IF ~has_field(handle, fv.name) THEN <<>>
    ELSE LET k == find_config(handle, fv.name)
             field_type == IF k = 0 THEN "text" ELSE handle.field_configs[k].field_type
             value == fv.value
         IN  CASE field_type = "date" ->
                    IF value.t = "String"
                    THEN LET dt == parse_from_rfc3339(value.s)
                         IN  IF dt.some THEN <<[field |-> fv.name, val |-> ODate(dt.v)]>>
                             ELSE <<>>
                    ELSE IF value.t = "Int"
                    THEN <<[field |-> fv.name, val |-> ODate(value.n)]>>
                    ELSE <<>>
               [] field_type = "json" ->
                    <<[field |-> fv.name, val |-> owned_from_json(value)]>>
               [] OTHER ->
                    CASE value.t = "String" -> <<[field |-> fv.name, val |-> OStr(value.s)]>>
                      [] value.t = "Int" -> <<[field |-> fv.name, val |-> OI64(value.n)]>>
                      [] value.t = "Float" -> <<[field |-> fv.name, val |-> OF64(value.n)]>>
                      [] value.t = "Bool" -> <<[field |-> fv.name, val |-> OI64(value.n)]>>
                      [] OTHER -> <<>>

RECURSIVE all_field_values_added(_, _)
all_field_values_added(handle, fields) ==
    IF fields = <<>> THEN <<>>
    ELSE field_values_added(handle, Head(fields)) \o all_field_values_added(handle, Tail(fields))

\* The TantivyDocument add_documents builds for a request document: the id first,
\* then the values of the fields.
tantivy_doc(handle, doc) ==
    <<[field |-> F_id, val |-> OStr(doc.id)]>> \o all_field_values_added(handle, doc.fields)

\* retrieved_doc.get_all(field).next(): the first value of a field in a document
\* read back from the doc store, which holds the values of the stored fields.
\* An Option: [some, v].
first_stored_value(handle, tdoc, name) ==
    IF field_entry(handle, name).stored /\ \E k \in DOMAIN tdoc : tdoc[k].field = name
    THEN [some |-> TRUE,
          v |-> tdoc[CHOOSE k \in DOMAIN tdoc :
                        tdoc[k].field = name /\ \A j \in 1..(k - 1) : tdoc[j].field # name].val]
    ELSE [some |-> FALSE, v |-> ONull]

\* The kinds of stored value add_hit turns into JSON; any other is skipped.
hydrated_kinds == {"Str", "U64", "I64", "F64", "Date"}

\* The JSON value add_hit makes of a stored value of one of those kinds.
hydrate_value(v) ==
    CASE v.t = "Str" -> JString(v.s)
      [] v.t = "I64" -> JInt(v.n)
      [] v.t = "U64" -> JInt(v.n)
      [] v.t = "F64" -> JFloat(v.n)
      [] v.t = "Date" -> JString(utc_string(v.n))

SchemaNames(handle) == {handle.schema[k].name : k \in DOMAIN handle.schema}

\* The field_values map add_hit builds for a document: a function from the names
\* of the fields that have a stored value of a hydrated kind to its JSON value.
field_values_of(handle, tdoc) ==
    LET present == {name \in SchemaNames(handle) :
                        /\ first_stored_value(handle, tdoc, name).some
                        /\ first_stored_value(handle, tdoc, name).v.t \in hydrated_kinds}
    IN  [name \in present |-> hydrate_value(first_stored_value(handle, tdoc, name).v)]

UNKNOWN_ID == <<"u", "n", "k", "n", "o", "w", "n">>

\* The SearchHit add_hit pushes for a document (score and highlights left out):
\* the id is the string under "id" in field_values, "unknown" without one.
SearchHit(handle, tdoc) ==
    LET field_values == field_values_of(handle, tdoc)
    IN  [id |-> IF F_id \in DOMAIN field_values /\ field_values[F_id].t = "String"
                THEN field_values[F_id].s ELSE UNKNOWN_ID,
         fields |-> field_values]

(***************************************************************************)
(* The segment store as the engine uses it: analysis, the query parser,    *)
(* matching, scoring and collection. The library is not part of the        *)
(* repository; what follows is its behaviour at the engine's call sites,   *)
(* for the queries the model issues: terms, field:term, quoted phrases,    *)
(* AND, OR and parentheses.                                                *)
(***************************************************************************)
\* The stemmer filter of the "norwegian" analyzer, reduced to the plural and
\* definite endings -er, -en, -e of a word of more than three letters.
stem(token) ==
    IF Len(token) > 3 /\ (ends_with(token, <<"e", "r">>) \/ ends_with(token, <<"e", "n">>))
    THEN SubSeq(token, 1, Len(token) - 2)
    ELSE IF Len(token) > 3 /\ ends_with(token, <<"e">>)
    THEN SubSeq(token, 1, Len(token) - 1)
    ELSE token

\* SimpleTokenizer and LowerCaser: the lowercased maximal runs of alphanumerics
simple_tokens(text) ==
    split_whitespace([i \in DOMAIN text |->
                        IF is_alphanumeric(text[i]) THEN to_lowercase_char(text[i]) ELSE " "])

\* The tokens an analyzer registered by register_analyzers (or the default one)
\* makes of a text.
analyze(tokenizer, text) ==
    CASE tokenizer = "raw" -> <<text>>
      [] tokenizer = "norwegian" ->
            LET toks == simple_tokens(text) IN [k \in DOMAIN toks |-> stem(toks[k])]
      [] OTHER -> simple_tokens(text)

RECURSIVE tokens_of_values(_, _, _)
tokens_of_values(tokenizer, tdoc, name) ==
    IF tdoc = <<>> THEN <<>>
    ELSE (IF Head(tdoc).field = name /\ Head(tdoc).val.t = "Str"
          THEN analyze(tokenizer, Head(tdoc).val.s) ELSE <<>>)
         \o tokens_of_values(tokenizer, Tail(tdoc), name)

\* The terms the index holds for a Str field of a document, in position order.
field_tokens(handle, tdoc, name) ==
    LET e == field_entry(handle, name)
    IN  IF e.kind = "Str" /\ e.indexed THEN tokens_of_values(e.tokenizer, tdoc, name) ELSE <<>>

\* A regex of the forms the engine emits (a literal, \c, ., .*) matches the
\* whole of a term.
RECURSIVE regex_match_from(_, _, _, _)
regex_match_from(pattern, i, term, j) ==
    IF i > Len(pattern) THEN j > Len(term)
    ELSE IF pattern[i] = "\\" /\ i < Len(pattern)
    THEN j <= Len(term) /\ term[j] = pattern[i + 1]
         /\ regex_match_from(pattern, i + 2, term, j + 1)
    ELSE IF pattern[i] = "." /\ i < Len(pattern) /\ pattern[i + 1] = "*"
    THEN \/ regex_match_from(pattern, i + 2, term, j)
         \/ j <= Len(term) /\ regex_match_from(pattern, i, term, j + 1)
    ELSE IF pattern[i] = "."
    THEN j <= Len(term) /\ regex_match_from(pattern, i + 1, term, j + 1)
    ELSE j <= Len(term) /\ term[j] = pattern[i]
         /\ regex_match_from(pattern, i + 1, term, j + 1)

regex_match(pattern, term) == regex_match_from(pattern, 1, term, 1)

\* The tokens occur in the field, one after the other.
phrase_in(tokens, field_toks) ==
    /\ tokens # <<>>
    /\ \E start \in 1..(Len(field_toks) - Len(tokens) + 1) :
          SubSeq(field_toks, start, start + Len(tokens) - 1) = tokens

\* The query parser's lexer: parentheses, quoted phrases, and words.
Tok(k, str) == [k |-> k, s |-> str]

RECURSIVE lex_from(_, _, _, _)
lex_from(q, i, cur, in_quotes) ==
    LET flush == IF cur = <<>> THEN <<>> ELSE <<Tok("word", cur)>>
    IN  IF i > Len(q) THEN (IF in_quotes THEN <<Tok("phrase", cur)>> ELSE flush)
        ELSE IF in_quotes
        THEN IF q[i] = "\"" THEN <<Tok("phrase", cur)>> \o lex_from(q, i + 1, <<>>, FALSE)
             ELSE lex_from(q, i + 1, Append(cur, q[i]), TRUE)
        ELSE IF q[i] = "\"" THEN flush \o lex_from(q, i + 1, <<>>, TRUE)
        ELSE IF q[i] = "(" THEN flush \o <<Tok("lp", <<>>)>> \o lex_from(q, i + 1, <<>>, FALSE)
        ELSE IF q[i] = ")" THEN flush \o <<Tok("rp", <<>>)>> \o lex_from(q, i + 1, <<>>, FALSE)
        ELSE IF is_whitespace(q[i]) THEN flush \o lex_from(q, i + 1, <<>>, FALSE)
        ELSE lex_from(q, i + 1, Append(cur, q[i]), FALSE)

lex(q) == lex_from(q, 1, <<>>, FALSE)

\* Query trees: a term over the fields it is looked up in, or a conjunction or
\* disjunction of trees.
TermNode(fields, text) == [op |-> "term", fields |-> fields, text |-> text, kids |-> <<>>]
AndNode(kids) == [op |-> "and", fields |-> {}, text |-> <<>>, kids |-> kids]
OrNode(kids) == [op |-> "or", fields |-> {}, text |-> <<>>, kids |-> kids]

ParseErr == [ok |-> FALSE, node |-> OrNode(<<>>), next |-> 0]

\* A word or phrase of the query as a term: field:text is looked up in that field,
\* which must exist; any other in the default fields, of which there must be one.
parse_term(handle, default_fields, tok) ==
    LET colon == IF tok.k = "word" THEN find(tok.s, <<":">>) ELSE 0
    IN  IF colon > 1
        THEN LET name == SubSeq(tok.s, 1, colon - 1)
             IN  IF has_field(handle, name)
                 THEN [ok |-> TRUE,
                       node |-> TermNode({name}, SubSeq(tok.s, colon + 1, Len(tok.s)))]
                 ELSE [ok |-> FALSE, node |-> OrNode(<<>>)]
        ELSE IF default_fields = {} THEN [ok |-> FALSE, node |-> OrNode(<<>>)]
        ELSE [ok |-> TRUE, node |-> TermNode(default_fields, tok.s)]

\* The parser proper, from token i: operands joined by AND form a conjunction,
\* conjunctions that follow one another (with or without OR) a disjunction.
RECURSIVE parse_seq(_, _, _, _, _, _, _, _)
parse_seq(handle, default_fields, toks, i, done, cur, last_op, depth) ==
    LET runs == IF cur = <<>> THEN done
                ELSE Append(done, IF Len(cur) = 1 THEN cur[1] ELSE AndNode(cur))
        finish(next) == [ok |-> TRUE,
                         node |-> IF Len(runs) = 1 THEN runs[1] ELSE OrNode(runs),
                         next |-> next]
        with(operand, next) ==
            IF last_op = "AND" /\ cur # <<>>
            THEN parse_seq(handle, default_fields, toks, next, done,
                           Append(cur, operand), "none", depth)
            ELSE parse_seq(handle, default_fields, toks, next, runs,
                           <<operand>>, "none", depth)
    IN  IF i > Len(toks) THEN (IF depth > 0 THEN ParseErr ELSE finish(i))
        ELSE IF toks[i].k = "rp" THEN (IF depth = 0 THEN ParseErr ELSE finish(i + 1))
        ELSE IF toks[i].k = "lp"
        THEN LET sub == parse_seq(handle, default_fields, toks, i + 1, <<>>, <<>>,
                                  "none", depth + 1)
             IN  IF sub.ok THEN with(sub.node, sub.next) ELSE ParseErr
        ELSE IF toks[i].k = "word" /\ toks[i].s \in {<<"A", "N", "D">>, <<"O", "R">>}
        THEN parse_seq(handle, default_fields, toks, i + 1, done, cur,
                       IF toks[i].s = <<"A", "N", "D">> THEN "AND" ELSE "OR", depth)
        ELSE LET t == parse_term(handle, default_fields, toks[i])
             IN  IF t.ok THEN with(t.node, i + 1) ELSE ParseErr

\* QueryParser::for_index(index, default_fields).parse_query(query_str)
parse_query(handle, default_fields, query_str) ==
    parse_seq(handle, default_fields, lex(query_str), 1, <<>>, <<>>, "none", 0)

\* A document matches a tree; its score is the number of terms of the tree it
\* matches (the store's relevance formula is not modelled, only that it is a
\* function of the query and the document).
term_matches(handle, node, tdoc) ==
    \E name \in node.fields :
        LET e == field_entry(handle, name)
        IN  /\ e.kind = "Str"
            /\ e.indexed
            /\ phrase_in(analyze(e.tokenizer, node.text), field_tokens(handle, tdoc, name))

RECURSIVE node_matches(_, _, _)
node_matches(handle, node, tdoc) ==
    CASE node.op = "term" -> term_matches(handle, node, tdoc)
      [] node.op = "and" ->
            \A k \in DOMAIN node.kids : node_matches(handle, node.kids[k], tdoc)
      [] node.op = "or" ->
            \E k \in DOMAIN node.kids : node_matches(handle, node.kids[k], tdoc)

RECURSIVE SumSeq(_)
SumSeq(s) == IF s = <<>> THEN 0 ELSE Head(s) + SumSeq(Tail(s))

RECURSIVE node_score(_, _, _)
node_score(handle, node, tdoc) ==
    IF node.op = "term" THEN (IF term_matches(handle, node, tdoc) THEN 1 ELSE 0)
    ELSE SumSeq([k \in DOMAIN node.kids |-> node_score(handle, node.kids[k], tdoc)])

(***************************************************************************)
(* src/src/search.rs: build_query                                          *)
(***************************************************************************)
\* add_field_prefix_to_terms: the character loop from position i, then the final
\* word. quote_char is the quote that opened the quoted section.
prefixed_word(field, current_word) ==
    IF current_word = <<>> THEN <<>>
    ELSE IF ~contains(current_word, <<":">>) /\ ~is_operator(current_word)
    THEN field \o <<":">> \o current_word
    ELSE current_word

RECURSIVE add_prefix_chars(_, _, _, _, _, _, _)
add_prefix_chars(field, content, i, result, current_word, in_quotes, quote_char) ==
    IF i > Len(content) THEN result \o prefixed_word(field, current_word)
    ELSE LET c == content[i]
         IN  IF c \in {"\"", "'"} /\ ~in_quotes
             THEN add_prefix_chars(field, content, i + 1,
                                   Append(result \o prefixed_word(field, current_word), c),
                                   <<>>, TRUE, c)
             ELSE IF c = quote_char /\ in_quotes
             THEN add_prefix_chars(field, content, i + 1,
                                   Append(IF current_word # <<>>
                                          THEN result \o field \o <<":", quote_char>>
                                                      \o current_word
                                          ELSE result, c),
                                   <<>>, FALSE, quote_char)
             ELSE IF in_quotes
             THEN add_prefix_chars(field, content, i + 1, result, Append(current_word, c),
                                   in_quotes, quote_char)
             ELSE IF is_whitespace(c) \/ c \in {"(", ")"}
             THEN add_prefix_chars(field, content, i + 1,
                                   Append(result \o prefixed_word(field, current_word), c),
                                   <<>>, in_quotes, quote_char)
             ELSE add_prefix_chars(field, content, i + 1, result, Append(current_word, c),
                                   in_quotes, quote_char)

add_field_prefix_to_terms(field, content) ==
    add_prefix_chars(field, content, 1, <<>>, <<>>, FALSE, "\"")

\* The end of the run of field-name characters that starts at i (the position
\* after its last character).
RECURSIVE name_end(_, _)
name_end(chars, i) ==
    IF i <= Len(chars) /\ (is_alphanumeric(chars[i]) \/ chars[i] = "_")
    THEN name_end(chars, i + 1) ELSE i

\* The scan for the closing parenthesis: the position it stops at and the depth
\* it stops with.
RECURSIVE content_scan(_, _, _)
content_scan(chars, content_end, depth) ==
    IF content_end <= Len(chars) /\ depth > 0
    THEN content_scan(chars, content_end + 1,
                      IF chars[content_end] = "(" THEN depth + 1
                      ELSE IF chars[content_end] = ")" THEN depth - 1
                      ELSE depth)
    ELSE [content_end |-> content_end, depth |-> depth]

\* expand_field_grouping: the loop from position i
RECURSIVE expand_grouping_from(_, _, _)
expand_grouping_from(chars, i, output) ==
    IF i > Len(chars) THEN output
    ELSE IF is_alphanumeric(chars[i]) \/ chars[i] = "_"
    THEN LET j == name_end(chars, i)
             field_name == SubSeq(chars, i, j - 1)
             scan == content_scan(chars, j + 2, 1)
         IN  IF j + 1 <= Len(chars) /\ chars[j] = ":" /\ chars[j + 1] = "(" /\ scan.depth = 0
             THEN expand_grouping_from(
                      chars, scan.content_end,
                      output \o <<"(">>
                             \o add_field_prefix_to_terms(
                                    field_name, SubSeq(chars, j + 2, scan.content_end - 2))
                             \o <<")">>)
             ELSE expand_grouping_from(chars, j, output \o field_name)
    ELSE expand_grouping_from(chars, i + 1, Append(output, chars[i]))

expand_field_grouping(query_str) == expand_grouping_from(query_str, 1, <<>>)

\* The conversion of a wildcard term to a regex: * becomes .*, ? becomes ., a
\* regex metacharacter is escaped.
RECURSIVE wildcard_to_regex(_)
wildcard_to_regex(term) ==
    IF term = <<>> THEN <<>>
    ELSE (CASE Head(term) = "*" -> <<".", "*">>
            [] Head(term) = "?" -> <<".">>
            [] Head(term) \in {".", "+", "^", "$", "(", ")", "[", "]", "{", "}", "|", "\\"} ->
                    <<"\\", Head(term)>>
            [] OTHER -> <<Head(term)>>)
         \o wildcard_to_regex(Tail(term))

\* A compiled query: an ExistsQuery, a TermSetQuery, RegexPhraseQuery or
\* RegexQuery clauses over fields, or what the query parser made.
ExistsQuery(name) ==
    [kind |-> "Exists", fields |-> {name}, terms |-> <<>>, node |-> OrNode(<<>>)]
TermSetQuery(name, terms) ==
    [kind |-> "TermSet", fields |-> {name}, terms |-> terms, node |-> OrNode(<<>>)]
RegexPhraseQuery(fields, terms) ==
    [kind |-> "RegexPhrase", fields |-> fields, terms |-> terms, node |-> OrNode(<<>>)]
RegexQuery(fields, pattern) ==
    [kind |-> "Regex", fields |-> fields, terms |-> <<pattern>>, node |-> OrNode(<<>>)]
ParsedQuery(node) ==
    [kind |-> "Parsed", fields |-> {}, terms |-> <<>>, node |-> node]

Ok(q) == [ok |-> TRUE, q |-> q]
Err == [ok |-> FALSE, q |-> ParsedQuery(OrNode(<<>>))]

\* query_parser.parse_query(query_str)?
parsed_query(parsed) == IF parsed.ok THEN Ok(ParsedQuery(parsed.node)) ELSE Err

StrFields(handle, fields) == {name \in fields : field_entry(handle, name).kind = "Str"}

\* build_query with fuzzy = false, after the field grouping has been expanded.
\* query_fields is the set of names of the default fields.
build_expanded_query(handle, query_str, query_fields) ==
    LET exists_prefix == <<"_", "e", "x", "i", "s", "t", "s", "_", ":">>
        in_pos == find(query_str, <<":", "I", "N", "[">>)
        in_field == SubSeq(query_str, 1, in_pos - 1)
        close_pos == IF in_pos = 0 THEN 0
                     ELSE find(SubSeq(query_str, in_pos, Len(query_str)), <<"]">>)
        terms == SelectSeq(split(SubSeq(query_str, in_pos + 4, in_pos + close_pos - 2), ","),
                           LAMBDA t : trim(t) # <<>>)
        has_wildcard == \E k \in DOMAIN query_str : query_str[k] \in {"*", "?"}
        is_phrase == has_wildcard /\ starts_with(query_str, <<"\"">>)
                                  /\ ends_with(query_str, <<"\"">>)
        phrase_words == split_whitespace(to_lowercase(SubSeq(query_str, 2, Len(query_str) - 1)))
        query_lower == to_lowercase(query_str)
        colon_pos == find(query_lower, <<":">>)
        field_name == SubSeq(query_lower, 1, colon_pos - 1)
        target_fields == IF colon_pos > 0 /\ has_field(handle, field_name)
                         THEN {field_name} ELSE query_fields
        pattern == IF colon_pos > 0 THEN SubSeq(query_lower, colon_pos + 1, Len(query_lower))
                   ELSE query_lower
    IN  IF starts_with(query_str, exists_prefix)
        THEN IF has_field(handle, trim(SubSeq(query_str, Len(exists_prefix) + 1, Len(query_str))))
             THEN Ok(ExistsQuery(trim(SubSeq(query_str, Len(exists_prefix) + 1, Len(query_str)))))
             ELSE Err
        ELSE IF in_pos > 0 /\ has_field(handle, in_field) /\ close_pos > 0 /\ terms # <<>>
        THEN Ok(TermSetQuery(in_field, [k \in DOMAIN terms |-> trim(terms[k])]))
        ELSE IF is_phrase /\ Len(phrase_words) >= 2 /\ StrFields(handle, query_fields) # {}
        THEN Ok(RegexPhraseQuery(StrFields(handle, query_fields),
                                 [k \in DOMAIN phrase_words |->
                                    wildcard_to_regex(phrase_words[k])]))
        ELSE IF has_wildcard /\ StrFields(handle, target_fields) # {}
        THEN Ok(RegexQuery(StrFields(handle, target_fields), wildcard_to_regex(pattern)))
        ELSE parsed_query(parse_query(handle, query_fields, query_str))

\* build_query: the field grouping is expanded first
build_query(handle, query_str, query_fields) ==
    build_expanded_query(handle, expand_field_grouping(query_str), query_fields)

(***************************************************************************)
(* Searching a segment snapshot. A snapshot is the sequence of the live    *)
(* documents of the last commit, in the order of their doc addresses.      *)
(***************************************************************************)
\* The store refuses an ExistsQuery on a field that is not fast.
query_runs(handle, q) ==
    q.kind = "Exists" => \A name \in q.fields : field_entry(handle, name).fast

query_matches(handle, q, tdoc) ==
    CASE q.kind = "Exists" ->
            \E name \in q.fields : \E k \in DOMAIN tdoc : tdoc[k].field = name
      [] q.kind = "TermSet" ->
            \E name \in q.fields : \E k \in DOMAIN q.terms :
                q.terms[k] \in Range(field_tokens(handle, tdoc, name))
      [] q.kind = "Regex" ->
            \E name \in q.fields : \E t \in Range(field_tokens(handle, tdoc, name)) :
                regex_match(q.terms[1], t)
      [] q.kind = "RegexPhrase" ->
            \E name \in q.fields :
                LET toks == field_tokens(handle, tdoc, name)
                IN  \E start \in 1..(Len(toks) - Len(q.terms) + 1) :
                        \A k \in DOMAIN q.terms : regex_match(q.terms[k], toks[start + k - 1])
      [] q.kind = "Parsed" -> node_matches(handle, q.node, tdoc)

\* Exists, TermSet and regex queries score every match alike.
query_score(handle, q, tdoc) ==
    IF q.kind = "Parsed" THEN node_score(handle, q.node, tdoc) ELSE 1

matching(handle, q, docs) == {p \in DOMAIN docs : query_matches(handle, q, docs[p])}

\* searcher.search(query, &Count)
Count(handle, q, docs) == Cardinality(matching(handle, q, docs))

\* The positions of a set in the order given by before, a strict total order on it.
Ordered(set, before(_, _)) ==
    [r \in 1..Cardinality(set) |->
        CHOOSE p \in set : Cardinality({o \in set : before(o, p)}) = r - 1]

\* The matches by descending score, equal scores by ascending doc address.
by_score(handle, q, docs) ==
    LET before(o, p) ==
            \/ query_score(handle, q, docs[o]) > query_score(handle, q, docs[p])
            \/ query_score(handle, q, docs[o]) = query_score(handle, q, docs[p]) /\ o < p
    IN  Ordered(matching(handle, q, docs), before)

\* The fast value of a field in a document: its first value of the field's
\* kind. A document without one sorts as the smallest value.
fast_value(handle, tdoc, name) ==
    LET kind == field_entry(handle, name).kind
        has == \E k \in DOMAIN tdoc : tdoc[k].field = name /\ tdoc[k].val.t = kind
    IN  IF has
        THEN [some |-> TRUE,
              v |-> tdoc[CHOOSE k \in DOMAIN tdoc :
                            /\ tdoc[k].field = name /\ tdoc[k].val.t = kind
                            /\ \A j \in 1..(k - 1) :
                                  ~(tdoc[j].field = name /\ tdoc[j].val.t = kind)].val.n]
        ELSE [some |-> FALSE, v |-> 0]

fast_less(a, b) == (~a.some /\ b.some) \/ (a.some /\ b.some /\ a.v < b.v)

\* order_by_fast_field(field_name, order): equal values by ascending doc address
by_fast_field(handle, q, docs, name, order) ==
    LET key(p) == fast_value(handle, docs[p], name)
        before(o, p) ==
            \/ (IF order = "Asc" THEN fast_less(key(o), key(p)) ELSE fast_less(key(p), key(o)))
            \/ key(o) = key(p) /\ o < p
    IN  Ordered(matching(handle, q, docs), before)

(***************************************************************************)
(* src/src/search.rs: search_internal and apply_pinned_results             *)
(***************************************************************************)
\* The mutant of apply_pinned_results: the pinned hits are moved to the front
\* but keep the order of the query.
apply_pinned_results_unsorted(pinned_ids, hits, limit) ==
    IF pinned_ids = <<>> THEN take(hits, limit)
    ELSE take(SelectSeq(hits, LAMBDA hit : hit.id \in Range(pinned_ids))
              \o SelectSeq(hits, LAMBDA hit : hit.id \notin Range(pinned_ids)), limit)

\* apply_pinned_results: the hits whose id is pinned, stably sorted by the
\* position of their id in pinned_ids, then the other hits; cut to limit.
apply_pinned_results(pinned_ids, hits, limit) ==
    IF pinned_ids = <<>> THEN take(hits, limit)
    ELSE LET pinned_set == Range(pinned_ids)
             pinned_hits == SelectSeq(hits, LAMBDA hit : hit.id \in pinned_set)
             remaining_hits == SelectSeq(hits, LAMBDA hit : hit.id \notin pinned_set)
             pos(k) == position(pinned_ids, pinned_hits[k].id)
             before(o, p) == pos(o) < pos(p) \/ (pos(o) = pos(p) /\ o < p)
             order == Ordered(DOMAIN pinned_hits, before)
             sorted == [k \in DOMAIN pinned_hits |-> pinned_hits[order[k]]]
         IN  take(sorted \o remaining_hits, limit)

\* add_hit for every fetched document, then apply_pinned_results
hits_of(handle, docs, pinned_ids, fetched, limit) ==
    apply_pinned_results(pinned_ids,
                         [k \in DOMAIN fetched |-> SearchHit(handle, docs[fetched[k]])], limit)

\* A search request (SearchRequest of src/src/models.rs without highlighting,
\* aggregations, fuzzy and minimum_should_match) and its sort option.
NoSort == [some |-> FALSE, field |-> <<>>, order |-> "Asc"]
SortOption(field, order) == [some |-> TRUE, field |-> field, order |-> order]
SearchRequest(query, limit, offset, fields, sort) ==
    [query |-> query, limit |-> limit, offset |-> offset, fields |-> fields, sort |-> sort]

\* A SearchResult: Ok((hits, total, ..)) or Err
SearchOk(hits, total) == [ok |-> TRUE, hits |-> hits, total |-> total]
SearchErr == [ok |-> FALSE, hits |-> <<>>, total |-> 0]

\* query_fields: every Str field of the schema when the request names no field,
\* else the named fields the schema has.
query_fields_of(handle, fields) ==
    IF fields = <<>>
    THEN {name \in SchemaNames(handle) : field_entry(handle, name).kind = "Str"}
    ELSE {name \in Range(fields) : has_field(handle, name)}

\* The fallback of search_internal: the fallback query replaces the primary
\* when the primary matches nothing, a fallback string exists and differs from
\* the query, and the fallback matches something. Err when a query does not
\* compile or the store refuses it.
query_or_fallback(handle, docs, primary, tried, fallback) ==
    IF ~primary.ok \/ ~query_runs(handle, primary.q) THEN Err
    ELSE IF Count(handle, primary.q, docs) = 0 /\ tried
    THEN IF ~fallback.ok \/ ~query_runs(handle, fallback.q) THEN Err
         ELSE IF Count(handle, fallback.q, docs) > 0 THEN fallback
         ELSE primary
    ELSE primary

\* The query the hits are collected with.
effective_query(handle, docs, query_str, query_fields) ==
    query_or_fallback(handle, docs,
                      build_query(handle, query_str, query_fields),
                      /\ fallback_query_string(query_str).some
                      /\ fallback_query_string(query_str).v # query_str,
                      build_query(handle, fallback_query_string(query_str).v, query_fields))

\* The sort precondition: 0 when the request may be sorted, else the error.
sort_error(handle, sort) ==
    LET k == find_config(handle, sort.field)
    IN  IF ~has_field(handle, sort.field) \/ k = 0 THEN "Sort field not found"
        ELSE IF ~handle.field_configs[k].fast THEN "must be configured with fast: true"
        ELSE IF handle.field_configs[k].field_type \notin {"i64", "f64", "date"}
        THEN "Sorting is only supported on fast i64, f64, date"
        ELSE "none"

\* The collection of search_internal, for the pinned ids and the query it has
\* found. TopDocs::with_limit panics on a limit of 0; the request then fails.
collect_hits(handle, docs, req, pinned_ids, query) ==
    LET fetched ==
            IF req.sort.some
            THEN take(skip(by_fast_field(handle, query.q, docs, req.sort.field,
                                         req.sort.order), req.offset),
                      req.limit + Len(pinned_ids))
            ELSE skip(take(by_score(handle, query.q, docs),
                           req.offset + req.limit + Len(pinned_ids)), req.offset)
        fetch_limit == IF req.sort.some THEN req.limit + Len(pinned_ids)
                       ELSE req.offset + req.limit + Len(pinned_ids)
    IN  IF ~query.ok THEN SearchErr
        ELSE IF req.sort.some /\ sort_error(handle, req.sort) # "none" THEN SearchErr
        ELSE IF fetch_limit = 0 THEN SearchErr
        ELSE SearchOk(hits_of(handle, docs, pinned_ids, fetched, req.limit),
                      Count(handle, query.q, docs))

\* search_internal on the handle of the index, the snapshot its fresh reader
\* opens, and the pinned rules and synonym groups stored for the index.
search_internal(handle, docs, index_rules, groups, req) ==
    collect_hits(handle, docs, req, get_pinned_doc_ids(index_rules, req.query),
                 effective_query(handle, docs, expand_query_with_synonyms(groups, req.query),
                                 query_fields_of(handle, req.fields)))

(***************************************************************************)
(* The engine as a state machine: the operations of SearchEngine taken as  *)
(* a whole, for a caller that issues one request after the other.          *)
(***************************************************************************)
\* A map without entries
EmptyMap == [x \in {} |-> <<>>]

\* HashMap::get(..).unwrap_or_default() on a map of lists
get_or_default(map, key) == IF key \in DOMAIN map THEN map[key] ELSE <<>>

\* HashMap::insert
insert(map, key, value) == [x \in DOMAIN map \cup {key} |-> IF x = key THEN value ELSE map[x]]

\* SearchEngine::new on an empty base directory
EngineNew ==
    /\ indices = EmptyMap
    /\ disk = EmptyMap
    /\ pinned_rules = EmptyMap
    /\ synonyms = EmptyMap
    /\ files = EmptyMap

StoreNew == metadata_store = [indices |-> {}, documents |-> EmptyMap]
NameIdle == nm = <<>> /\ nmStatus = 0
ClientIdle == client = <<>> /\ replies = <<>>
ThreadsIdle == threads = <<>> /\ locks = <<>> /\ commits = <<>> /\ acked = <<>>

\* create_index: the schema is built, the directory and the index in it are
\* created (which fails when the directory holds an index), the handle with the
\* declared configurations is inserted.
CreateIndex(name, fields) ==
    LET built == create_index_schema(fields)
    IN  /\ built.ok
        /\ name \notin DOMAIN disk
        /\ disk' = insert(disk, name, [schema |-> built.schema, docs |-> <<>>])
        /\ indices' = insert(indices, name, IndexHandle(built.schema, fields))
        /\ UNCHANGED <<pinned_rules, synonyms, files>>

RECURSIVE tantivy_docs(_, _)
tantivy_docs(handle, documents) ==
    IF documents = <<>> THEN <<>>
    ELSE <<tantivy_doc(handle, Head(documents))>> \o tantivy_docs(handle, Tail(documents))

\* add_documents by a caller that is alone: every document is added, then the
\* writer commits.
AddDocuments(index_name, documents) ==
    /\ index_name \in DOMAIN indices
    /\ disk' = [disk EXCEPT ![index_name].docs =
                    @ \o tantivy_docs(indices[index_name], documents)]
    /\ UNCHANGED <<indices, pinned_rules, synonyms, files>>

\* serde_json::to_string_pretty of a side-car map and serde_json::from_str of
\* a file's content. The maps hold strings and lists of strings only, which the
\* two conversions carry over exactly; what is kept of the text is that it is a
\* complete JSON document, and the map it denotes. A file that was opened for
\* writing and not written yet is empty, and from_str fails on it.
to_string_pretty(map) == [json |-> TRUE, map |-> map]
EMPTY_CONTENT == [json |-> FALSE, map |-> EmptyMap]
\* from_str: a Result, here as an Option (Some(map) for Ok, None for Err)
from_str(content) ==
    IF content.json THEN Some(content.map) ELSE None

SYNONYMS_JSON == "synonyms.json"
PINNED_RULES_JSON == "pinned_rules.json"

\* SearchEngine::new, for one side-car file: the map in the file when the file
\* exists and parses, else the empty map (unwrap_or_default).
load_side_car(dir, file_name) ==
    IF file_name \in DOMAIN dir
    THEN LET parsed == from_str(dir[file_name])
         IN  IF parsed.some THEN parsed.v ELSE EmptyMap
    ELSE EmptyMap

\* add_pinned_rules by a caller that is alone: the rules are appended to the
\* list of the index, then save_pinned_rules rewrites the file.
AddPinnedRules(index_name, rules) ==
    /\ pinned_rules' = insert(pinned_rules, index_name,
                              get_or_default(pinned_rules, index_name) \o rules)
    /\ files' = insert(files, PINNED_RULES_JSON, to_string_pretty(pinned_rules'))
    /\ UNCHANGED <<indices, disk, synonyms>>

\* add_synonyms by a caller that is alone: the groups are appended to the list
\* of the index, then save_synonyms rewrites the file.
AddSynonyms(index_name, synonym_groups) ==
    /\ synonyms' = insert(synonyms, index_name,
                          get_or_default(synonyms, index_name) \o synonym_groups)
    /\ files' = insert(files, SYNONYMS_JSON, to_string_pretty(synonyms'))
    /\ UNCHANGED <<indices, disk, pinned_rules>>

\* A search by a caller that is alone: Err for an index without handle, else
\* search_internal on the last commit.
search(index_name, req) ==
    IF index_name \notin DOMAIN indices THEN SearchErr
    ELSE search_internal(indices[index_name], disk[index_name].docs,
                         get_or_default(pinned_rules, index_name),
                         get_or_default(synonyms, index_name), req)

\* Words and ids of the documents, rules and queries of the specifications
W_title == <<"t", "i", "t", "l", "e">>
W_wolf == <<"w", "o", "l", "f">>
W_two == <<"t", "w", "o">>
W_bear == <<"b", "e", "a", "r">>
W_what == <<"w", "h", "a", "t">>
W_ulv == <<"u", "l", "v">>
W_year == <<"y", "e", "a", "r">>
W_price == <<"p", "r", "i", "c", "e">>
W_added == <<"a", "d", "d", "e", "d">>
W_meta == <<"m", "e", "t", "a">>
W_nosuch == <<"n", "o", "s", "u", "c", "h">>
W_varg == <<"v", "a", "r", "g">>
W_to == <<"t", "o">>
W_til == <<"t", "i", "l">>
PinnedRule(queries, document_ids) == [queries |-> queries, document_ids |-> document_ids]
SynonymGroup(terms) == [terms |-> terms]
TitleDoc(id, title) == Document(id, <<FieldValue(W_title, JString(title))>>)
TitleField == FieldConfig(W_title, "text", TRUE, TRUE, "default", FALSE)

(***************************************************************************)
(* SpecName: validate_index_name applied to names drawn from a bounded set *)
(***************************************************************************)
\* The characters a name is drawn from: letters of both cases, a digit, the two
\* allowed punctuation marks, the path characters, a space, a non-ASCII letter.
NameChars == {"a", "Z", "0", "_", "-", ".", "/", "\\", " ", "U+E9"}

\* A name is a free head of at most MaxNameHead characters followed by a run of
\* at most MaxNamePad letters, which takes the length across the limit of 64.
MaxNameHead == 2
MaxNamePad == 65

NameHeads == UNION {[1..n -> NameChars] : n \in 0..MaxNameHead}

Pad(n) == [i \in 1..n |-> "a"]

NameInputs == {h \o Pad(n) : h \in NameHeads, n \in 0..MaxNamePad}

InitName ==
    /\ nm \in NameInputs
    /\ nmStatus = 0
    /\ EngineNew
    /\ StoreNew
    /\ ThreadsIdle
    /\ ClientIdle

ValidateIndexName ==
    /\ nmStatus = 0
    /\ nmStatus' = validate_index_name(nm)
    /\ UNCHANGED <<nm, engineVars, storeVars, clientVars, threadVars>>

NextName == ValidateIndexName

SpecName == InitName /\ [][NextName]_vars

\* What the specification says of a name, stated on characters.
NameWellFormed(name) ==
    /\ Len(name) \in 1..64
    /\ IsAsciiLetter(name[1])
    /\ \A i \in 1..Len(name) :
          name[i] \in LowerLetters \cup UpperLetters \cup Digits \cup {"_", "-"}
    /\ ~contains(name, <<".", ".">>)
    /\ ~contains(name, <<"/">>)
    /\ ~contains(name, <<"\\">>)

\* C3: validate_index_name accepts a name if and only if it is 1 to 64 characters
\* long, starts with an ASCII letter, consists only of ASCII letters, digits, '_'
\* and '-', and contains none of '..', '/', '\'; every other name is answered 400.
C3_NameValidation ==
    nmStatus # 0 =>
        /\ nmStatus \in {200, 400}
        /\ (nmStatus = 200) <=> NameWellFormed(nm)

\* A name of exactly 64 letters has been accepted.
C3_Witness == nmStatus = 200 /\ Len(nm) = MAX_INDEX_NAME_LENGTH

(***************************************************************************)
(* SpecPage: a caller creates the index "books" with a stored text field   *)
(* title, adds documents and pinned rules, and then reads a query in       *)
(* pages: (offset 0, limit k), (offset k, limit n), (offset 0, limit k+n). *)
(* Nothing is written once the reading has begun.                          *)
(***************************************************************************)
MaxDocs == 2
MaxLimit == 2

PageDocs == {TitleDoc(<<"1">>, W_wolf),
             TitleDoc(<<"2">>, W_two \o <<" ">> \o W_wolf),
             TitleDoc(<<"3">>, W_bear)}

PageRules == {PinnedRule(<<W_wolf>>, <<<<"2">>, <<"1">>>>),
              PinnedRule(<<W_wolf>>, <<<<"3">>, <<"2">>>>),
              PinnedRule(<<W_bear>>, <<<<"1">>>>)}

PageQueries == {W_wolf, W_bear \o <<" ", "O", "R", " ">> \o W_wolf}

InitPage ==
    /\ EngineNew
    /\ StoreNew
    /\ ThreadsIdle
    /\ NameIdle
    /\ client = [phase |-> "setup"]
    /\ replies = <<>>

PageCreateIndex ==
    /\ client.phase = "setup"
    /\ CreateIndex("books", <<TitleField>>)
    /\ UNCHANGED <<nameVars, storeVars, threadVars, clientVars>>

PageAddDocuments ==
    /\ client.phase = "setup"
    /\ "books" \in DOMAIN disk
    /\ Len(disk["books"].docs) < MaxDocs
    /\ \E doc \in PageDocs : AddDocuments("books", <<doc>>)
    /\ UNCHANGED <<nameVars, storeVars, threadVars, clientVars>>

PageAddPinnedRules ==
    /\ client.phase = "setup"
    /\ "books" \notin DOMAIN pinned_rules
    /\ \E rule \in PageRules : AddPinnedRules("books", <<rule>>)
    /\ UNCHANGED <<nameVars, storeVars, threadVars, clientVars>>

\* What the caller keeps of a completed search
Reply(req, res) ==
    [req |-> req, res |-> res,
     pinned_ids |-> get_pinned_doc_ids(get_or_default(pinned_rules, "books"), req.query)]

PageFirst ==
    /\ client.phase = "setup"
    /\ "books" \in DOMAIN indices
    /\ \E q \in PageQueries, k \in 0..MaxLimit, n \in 0..MaxLimit :
          LET req == SearchRequest(q, k, 0, <<>>, NoSort)
          IN  /\ client' = [phase |-> "second", q |-> q, k |-> k, n |-> n]
              /\ replies' = <<Reply(req, search("books", req))>>
    /\ UNCHANGED <<nameVars, storeVars, threadVars, engineVars>>

PageSecond ==
    /\ client.phase = "second"
    /\ LET req == SearchRequest(client.q, client.n, client.k, <<>>, NoSort)
       IN  replies' = Append(replies, Reply(req, search("books", req)))
    /\ client' = [client EXCEPT !.phase = "whole"]
    /\ UNCHANGED <<nameVars, storeVars, threadVars, engineVars>>

PageWhole ==
    /\ client.phase = "whole"
    /\ LET req == SearchRequest(client.q, client.k + client.n, 0, <<>>, NoSort)
       IN  replies' = Append(replies, Reply(req, search("books", req)))
    /\ client' = [client EXCEPT !.phase = "done"]
    /\ UNCHANGED <<nameVars, storeVars, threadVars, engineVars>>

NextPage ==
    \/ PageCreateIndex
    \/ PageAddDocuments
    \/ PageAddPinnedRules
    \/ PageFirst
    \/ PageSecond
    \/ PageWhole

SpecPage == InitPage /\ [][NextPage]_vars


\* The hits a request fetches before pinning is applied: the documents at the
\* ranks offset+1 .. offset+limit+k of the query's order, k the number of
\* pinned ids.
Fetched(r) ==
    LET handle == indices["books"]
        docs == disk["books"].docs
        query == effective_query(handle, docs, r.req.query, query_fields_of(handle, <<>>))
        ranked == by_score(handle, query.q, docs)
        first == r.req.offset + 1
        last == Min(Len(ranked), r.req.offset + r.req.limit + Len(r.pinned_ids))
    IN  [i \in 1..(IF last < first THEN 0 ELSE last - first + 1) |->
            SearchHit(handle, docs[ranked[first + i - 1]])]

Ids(hits) == [i \in DOMAIN hits |-> hits[i].id]

Pinned(r) == r.res.ok /\ r.pinned_ids # <<>>

\* C4 as stated: when a pinned rule with k ids matches, the first min(k, limit)
\* hits are the rule's ids that occur among the fetched hits, in rule order.
C4_AsStated ==
    \A x \in DOMAIN replies :
        LET r == replies[x]
            m == Min(Len(r.pinned_ids), r.req.limit)
            among == SelectSeq(r.pinned_ids, LAMBDA id : id \in Range(Ids(Fetched(r))))
        IN  Pinned(r) /\ r.req.offset = 0 => Ids(take(r.res.hits, m)) = take(among, m)

\* C4: when a pinned rule matches the query, with p the number of fetched hits
\* whose id is in the rule, the first min(p, limit) returned hits are the fetched
\* hits with a pinned id, ordered by the position of their id in the rule (hits
\* of equal id in query order); the hits after them are the other fetched hits
\* in query order, and the list is min(fetched, limit) long. p may be less than k.
C4_Pinning ==
    \A x \in DOMAIN replies :
        LET r == replies[x]
            hits == r.res.hits
            w == Fetched(r)
            R == Range(r.pinned_ids)
            p == Cardinality({i \in DOMAIN w : w[i].id \in R})
            m == Min(p, r.req.limit)
            among == SelectSeq(r.pinned_ids, LAMBDA id : id \in Range(Ids(w)))
        IN  Pinned(r) =>
                /\ Len(hits) = Min(Len(w), r.req.limit)
                /\ \A i \in 1..m : hits[i].id \in R
                /\ \A i \in 1..(m - 1) :
                      position(r.pinned_ids, hits[i].id) <= position(r.pinned_ids, hits[i + 1].id)
                /\ SubSeq(hits, m + 1, Len(hits))
                      = take(SelectSeq(w, LAMBDA hit : hit.id \notin R), r.req.limit - m)
                /\ (p = Len(among)) => Ids(take(hits, m)) = take(among, m)

\* A rule of two ids matched, both ids were fetched, and pinning put the hit
\* that the query ranks second in front.
C4_Witness ==
    \E x \in DOMAIN replies :
        LET r == replies[x]
            w == Fetched(r)
        IN  /\ Pinned(r)
            /\ Len(r.pinned_ids) = 2
            /\ r.req.limit = 2
            /\ Len(w) >= 2
            /\ Ids(take(r.res.hits, 2)) = r.pinned_ids
            /\ w[1].id = r.pinned_ids[2]

\* C5: with no write in between and no pinned rule matching the query, the hits
\* of (offset 0, limit k) followed by the hits of (offset k, limit n) are the
\* hits of (offset 0, limit k+n), hence a prefix of them. A request that fails
\* returns no hits.
C5_Pagination ==
    (Len(replies) = 3 /\ \A x \in DOMAIN replies : replies[x].pinned_ids = <<>>) =>
        replies[1].res.hits \o replies[2].res.hits = replies[3].res.hits

\* Both pages hold a hit and a rule is stored that does not match the query.
C5_Witness ==
    /\ Len(replies) = 3
    /\ "books" \in DOMAIN pinned_rules
    /\ \A x \in DOMAIN replies : replies[x].pinned_ids = <<>> /\ replies[x].res.ok
    /\ replies[1].res.hits # <<>>
    /\ replies[2].res.hits # <<>>
    /\ Len(replies[3].res.hits) = client.k + client.n

(***************************************************************************)
(* SpecSyn: a caller creates "books", adds documents and synonym groups,   *)
(* and then searches for one term and for another.                         *)
(***************************************************************************)
MaxGroups == 2

SynDocs == {TitleDoc(<<"1">>, W_wolf), TitleDoc(<<"2">>, W_ulv),
            TitleDoc(<<"3">>, W_to), TitleDoc(<<"4">>, W_til)}

SynGroups == {SynonymGroup(<<W_wolf, W_ulv>>),
              SynonymGroup(<<W_ulv, W_varg>>),
              SynonymGroup(<<W_to, W_til>>)}

SynTerms == {W_wolf, W_ulv, W_varg, W_to, W_til}

InitSyn ==
    /\ EngineNew
    /\ StoreNew
    /\ ThreadsIdle
    /\ NameIdle
    /\ client = [phase |-> "setup"]
    /\ replies = <<>>

SynCreateIndex ==
    /\ client.phase = "setup"
    /\ CreateIndex("books", <<TitleField>>)
    /\ UNCHANGED <<nameVars, storeVars, threadVars, clientVars>>

SynAddDocuments ==
    /\ client.phase = "setup"
    /\ "books" \in DOMAIN disk
    /\ Len(disk["books"].docs) < MaxDocs
    /\ \E doc \in SynDocs : AddDocuments("books", <<doc>>)
    /\ UNCHANGED <<nameVars, storeVars, threadVars, clientVars>>

SynAddSynonyms ==
    /\ client.phase = "setup"
    /\ Len(get_or_default(synonyms, "books")) < MaxGroups
    /\ \E group \in SynGroups : AddSynonyms("books", <<group>>)
    /\ UNCHANGED <<nameVars, storeVars, threadVars, clientVars>>

\* What the caller keeps of a search for a term: the reply and, for reference,
\* the query the engine expanded the term to.
TermReply(term) ==
    [term |-> term,
     expanded |-> expand_query_with_synonyms(get_or_default(synonyms, "books"), term),
     res |-> search("books", SearchRequest(term, 10, 0, <<>>, NoSort))]

SynSearchFirst ==
    /\ client.phase = "setup"
    /\ "books" \in DOMAIN indices
    /\ \E term \in SynTerms : replies' = <<TermReply(term)>>
    /\ client' = [phase |-> "second"]
    /\ UNCHANGED <<nameVars, storeVars, threadVars, engineVars>>

SynSearchSecond ==
    /\ client.phase = "second"
    /\ \E term \in SynTerms : replies' = Append(replies, TermReply(term))
    /\ client' = [phase |-> "done"]
    /\ UNCHANGED <<nameVars, storeVars, threadVars, engineVars>>

NextSyn ==
    \/ SynCreateIndex
    \/ SynAddDocuments
    \/ SynAddSynonyms
    \/ SynSearchFirst
    \/ SynSearchSecond

SpecSyn == InitSyn /\ [][NextSyn]_vars

\* The two terms searched for are terms of one stored group.
SameGroup(a, b) ==
    \E g \in DOMAIN get_or_default(synonyms, "books") :
        LET terms == Range(to_lowercase_all(synonyms["books"][g].terms))
        IN  to_lowercase(a) \in terms /\ to_lowercase(b) \in terms

\* C6: two terms of one stored synonym group, each searched for alone, are
\* expanded to the same query and return the same set of hit ids.
C6_SynonymSymmetry ==
    (Len(replies) = 2 /\ SameGroup(replies[1].term, replies[2].term)) =>
        /\ replies[1].expanded = replies[2].expanded
        /\ Range(Ids(replies[1].res.hits)) = Range(Ids(replies[2].res.hits))

(***************************************************************************)
(* SpecFallback: a caller creates "books", adds documents, and searches    *)
(* with a query that may need the keyword fallback.                        *)
(***************************************************************************)
FallbackDocs == {TitleDoc(<<"1">>, W_wolf),
                 TitleDoc(<<"2">>, W_two \o <<" ">> \o W_wolf),
                 TitleDoc(<<"3">>, W_ulv)}

\* wolf; what wolf; what AND wolf; wolf?; bear; what; title:bear; title:what
FallbackQueries == {W_wolf,
                    W_what \o <<" ">> \o W_wolf,
                    W_what \o <<" ", "A", "N", "D", " ">> \o W_wolf,
                    W_wolf \o <<"?">>,
                    W_bear,
                    W_what,
                    W_title \o <<":">> \o W_bear,
                    W_title \o <<":">> \o W_what}

\* The fields a request names: none, or one the index does not have.
FallbackFields == {<<>>, <<W_nosuch>>}

InitFallback ==
    /\ EngineNew
    /\ StoreNew
    /\ ThreadsIdle
    /\ NameIdle
    /\ client = [phase |-> "setup"]
    /\ replies = <<>>

FallbackCreateIndex ==
    /\ client.phase = "setup"
    /\ CreateIndex("books", <<TitleField>>)
    /\ UNCHANGED <<nameVars, storeVars, threadVars, clientVars>>

FallbackAddDocuments ==
    /\ client.phase = "setup"
    /\ "books" \in DOMAIN disk
    /\ Len(disk["books"].docs) < MaxDocs
    /\ \E doc \in FallbackDocs : AddDocuments("books", <<doc>>)
    /\ UNCHANGED <<nameVars, storeVars, threadVars, clientVars>>

FallbackSearch ==
    /\ client.phase = "setup"
    /\ "books" \in DOMAIN indices
    /\ \E q \in FallbackQueries, fields \in FallbackFields :
          LET req == SearchRequest(q, 10, 0, fields, NoSort)
          IN  replies' = <<[req |-> req, res |-> search("books", req)]>>
    /\ client' = [phase |-> "done"]
    /\ UNCHANGED <<nameVars, storeVars, threadVars, engineVars>>

NextFallback ==
    \/ FallbackCreateIndex
    \/ FallbackAddDocuments
    \/ FallbackSearch

SpecFallback == InitFallback /\ [][NextFallback]_vars

\* The result of a request that collects with the compiled query q: the first
\* limit documents of the query's order, and the number of matches.
ResultOf(q, limit) ==
    LET handle == indices["books"]
        docs == disk["books"].docs
        ranked == by_score(handle, q, docs)
    IN  SearchOk([k \in 1..Min(limit, Len(ranked)) |-> SearchHit(handle, docs[ranked[k]])],
                 Len(ranked))

\* C7: a search whose primary query compiles returns the primary's hits and
\* total when the primary matches a document; the results of the keyword
\* fallback when the primary matches none and the fallback at least one; and
\* the empty result (success, total 0) when neither matches anything.
C7_Fallback ==
    \A x \in DOMAIN replies :
        LET r == replies[x]
            handle == indices["books"]
            docs == disk["books"].docs
            query_fields == query_fields_of(handle, r.req.fields)
            query_str == expand_query_with_synonyms(<<>>, r.req.query)
            primary == build_query(handle, query_str, query_fields)
            fallback_string == fallback_query_string(query_str)
            fallback == build_query(handle, fallback_string.v, query_fields)
            P == Count(handle, primary.q, docs)
            F == IF fallback_string.some /\ fallback.ok
                 THEN Count(handle, fallback.q, docs) ELSE 0
        IN  primary.ok =>
                /\ P > 0 => r.res = ResultOf(primary.q, r.req.limit)
                /\ (P = 0 /\ F > 0) => r.res = ResultOf(fallback.q, r.req.limit)
                /\ (P = 0 /\ F = 0) => r.res = SearchOk(<<>>, 0)

(***************************************************************************)
(* SpecSchema: a caller creates "books" with one of several field lists,   *)
(* all stored; adds documents; the process may be restarted, which         *)
(* rebuilds the handle from the directory; the caller then searches, with  *)
(* a sort option or for the id of a document.                              *)
(***************************************************************************)
SchemaFieldLists == {
    <<TitleField, FieldConfig(W_year, "i64", TRUE, TRUE, "default", TRUE),
      FieldConfig(W_added, "date", TRUE, TRUE, "default", FALSE)>>,
    <<FieldConfig(W_title, "text", TRUE, TRUE, "default", TRUE),
      FieldConfig(W_year, "i64", TRUE, TRUE, "default", FALSE),
      FieldConfig(W_added, "date", TRUE, TRUE, "default", TRUE)>>,
    <<FieldConfig(W_title, "string", TRUE, TRUE, "default", FALSE),
      FieldConfig(W_price, "f64", TRUE, FALSE, "default", TRUE),
      FieldConfig(W_meta, "json", TRUE, TRUE, "default", TRUE)>>,
    <<TitleField, FieldConfig(W_price, "f64", TRUE, TRUE, "default", FALSE),
      FieldConfig(W_meta, "json", TRUE, FALSE, "default", FALSE)>>}

SchemaDocs == {
    Document(<<"1">>, <<FieldValue(W_title, JString(W_wolf)), FieldValue(W_year, JInt(7)),
                        FieldValue(W_price, JFloat(95)),
                        FieldValue(W_added, JString(Rfc3339Utc(5))),
                        FieldValue(W_meta, JObject(1))>>),
    Document(<<"2">>, <<FieldValue(W_title, JString(W_wolf)), FieldValue(W_year, JBool(TRUE)),
                        FieldValue(W_price, JFloat(20)),
                        FieldValue(W_added, JString(Rfc3339Plus1(9)))>>),
    Document(<<"3">>, <<FieldValue(W_title, JString(W_bear)), FieldValue(W_year, JInt(3)),
                        FieldValue(W_added, JInt(2)),
                        FieldValue(W_meta, JObject(2))>>)}

SortFields == {W_title, W_year, W_price, W_added, W_meta, F_id, W_nosuch}

\* The requests of the caller: the documents with wolf or bear in the title,
\* sorted by a field; or the document of an id.
SchemaRequests ==
    {SearchRequest(W_title \o <<":">> \o W_wolf, 10, 0, <<>>, SortOption(f, o)) :
        f \in SortFields, o \in {"Asc", "Desc"}}
    \cup {SearchRequest(F_id \o <<":">> \o id, 10, 0, <<>>, NoSort) :
            id \in {<<"1">>, <<"2">>, <<"3">>}}

InitSchema ==
    /\ EngineNew
    /\ StoreNew
    /\ ThreadsIdle
    /\ NameIdle
    /\ client = [phase |-> "setup", declared |-> <<>>, added |-> <<>>, restarted |-> FALSE]
    /\ replies = <<>>

SchemaCreateIndex ==
    /\ client.phase = "setup"
    /\ \E fields \in SchemaFieldLists :
          /\ CreateIndex("books", fields)
          /\ client' = [client EXCEPT !.declared = fields]
    /\ UNCHANGED <<nameVars, storeVars, threadVars, replies>>

SchemaAddDocuments ==
    /\ client.phase = "setup"
    /\ "books" \in DOMAIN indices
    /\ Len(disk["books"].docs) < MaxDocs
    /\ \E doc \in SchemaDocs :
          /\ AddDocuments("books", <<doc>>)
          /\ client' = [client EXCEPT !.added = Append(@, doc)]
    /\ UNCHANGED <<nameVars, storeVars, threadVars, replies>>

\* load_indices: every directory under the base path that opens as an index
\* gets a handle with its schema and the configurations read off the schema.
load_indices(directories) ==
    [name \in DOMAIN directories |->
        IndexHandle(directories[name].schema,
                    field_configs_from_schema(directories[name].schema))]

\* The process is restarted: a new engine loads the indexes from the base path.
SchemaRestart ==
    /\ client.phase = "setup"
    /\ ~client.restarted
    /\ indices' = load_indices(disk)
    /\ synonyms' = load_side_car(files, SYNONYMS_JSON)
    /\ pinned_rules' = load_side_car(files, PINNED_RULES_JSON)
    /\ client' = [client EXCEPT !.restarted = TRUE]
    /\ UNCHANGED <<nameVars, storeVars, threadVars, disk, files, replies>>

SchemaSearch ==
    /\ client.phase = "setup"
    /\ "books" \in DOMAIN indices
    /\ \E req \in SchemaRequests :
          replies' = <<[req |-> req, res |-> search("books", req)]>>
    /\ client' = [client EXCEPT !.phase = "done"]
    /\ UNCHANGED <<nameVars, storeVars, threadVars, engineVars>>

NextSchema ==
    \/ SchemaCreateIndex
    \/ SchemaAddDocuments
    \/ SchemaRestart
    \/ SchemaSearch

SpecSchema == InitSchema /\ [][NextSchema]_vars

\* The configuration the caller declared for a field: 0 when it declared none
Declared(name) ==
    IF \E k \in DOMAIN client.declared : client.declared[k].name = name
    THEN CHOOSE k \in DOMAIN client.declared : client.declared[k].name = name
    ELSE 0

\* C8: a search whose sort field was not declared fast fails and returns no
\* hits, before and after a restart has rebuilt the handle.
C8_SortNeedsFast ==
    \A x \in DOMAIN replies :
        LET r == replies[x]
            k == Declared(r.req.sort.field)
        IN  (r.req.sort.some /\ (k = 0 \/ ~client.declared[k].fast)) =>
                ~r.res.ok /\ r.res.hits = <<>>

\* After a restart, a sort by the i64 field year, declared without fast, has
\* failed although documents match the query.
C8_Witness ==
    \E x \in DOMAIN replies :
        LET r == replies[x]
            k == Declared(r.req.sort.field)
        IN  /\ client.restarted
            /\ r.req.sort.some
            /\ r.req.sort.field = W_year
            /\ k # 0
            /\ ~client.declared[k].fast
            /\ Count(indices["books"], ParsedQuery(TermNode({W_title}, W_wolf)),
                     disk["books"].docs) > 0
            /\ ~r.res.ok

\* The value the specification documents for a field value read back: a boolean
\* as 0 / 1, a date as the text of its UTC instant, any other value as it is.
Coerced(field_type, value) ==
    IF value.t = "Bool" THEN JInt(value.n)
    ELSE IF field_type = "date" /\ value.t = "String"
    THEN JString(utc_string(parse_from_rfc3339(value.s).v))
    ELSE IF field_type = "date" /\ value.t = "Int" THEN JString(utc_string(value.n))
    ELSE value

\* C9: a search for the id of a document that was added returns a hit for it
\* whose fields hold the values that were added, up to the documented coercions.
C9_RoundTrip ==
    \A x \in DOMAIN replies : \A a \in DOMAIN client.added :
        LET r == replies[x]
            d == client.added[a]
        IN  (~r.req.sort.some /\ r.req.query = F_id \o <<":">> \o d.id) =>
                /\ r.res.ok
                /\ \E h \in DOMAIN r.res.hits :
                      /\ r.res.hits[h].id = d.id
                      /\ \A f \in DOMAIN d.fields :
                            LET k == Declared(d.fields[f].name)
                            IN  k # 0 =>
                                  /\ d.fields[f].name \in DOMAIN r.res.hits[h].fields
                                  /\ r.res.hits[h].fields[d.fields[f].name]
                                        = Coerced(client.declared[k].field_type,
                                                  d.fields[f].value)

(***************************************************************************)
(* Spec: request threads call the engine concurrently on the index         *)
(* "books". A call is a sequence of steps, one per point where the code    *)
(* takes a lock, opens a reader, commits or returns; the steps of          *)
(* different threads interleave. add_documents and delete_document take    *)
(* the read lock of SearchEngine.indices, then the write lock of the       *)
(* handle's writer, commit, and drop both when they return. A read         *)
(* (search, suggest, get_index_stats, get_document_count) takes the read   *)
(* lock of SearchEngine.indices and builds a new reader, which loads the   *)
(* last commit.                                                            *)
(***************************************************************************)
MaxCalls == 3

Threads == {"t1", "t2"}
BOOKS == "books"
ThreadIds == {<<"1">>, <<"2">>}
ThreadBatches == {<<TitleDoc(<<"1">>, W_wolf), TitleDoc(<<"2">>, W_wolf)>>,
                  <<TitleDoc(<<"1">>, W_wolf), TitleDoc(<<"1">>, W_bear)>>}
ReadKinds == {"search", "suggest", "get_index_stats", "get_document_count"}
ThreadRequest ==
    SearchRequest(W_bear \o <<" ", "O", "R", " ">> \o W_wolf, 10, 0, <<>>, NoSort)

Max(a, b) == IF a >= b THEN a ELSE b

\* A thread between two calls; what its last call returned stays in the record
\* until it begins the next.
IdleThread ==
    [pc |-> "idle", call |-> "none", documents |-> <<>>, doc_id |-> <<>>,
     floor |-> 0, deleted |-> [id \in ThreadIds |-> 0], banned |-> {},
     version |-> 0, docs |-> <<>>, ok |-> TRUE, ids |-> <<>>, num_docs |-> 0]

InitThreads ==
    /\ threads = [t \in Threads |-> IdleThread]
    /\ locks = [indices_readers |-> {}, writer |-> "free"]
    /\ commits = [version |-> 0, previous |-> [version |-> 0, docs |-> <<>>],
                  added |-> [id \in ThreadIds |-> {}]]
    /\ acked = [calls |-> 0, version |-> 0, deleted |-> [id \in ThreadIds |-> 0]]

Init ==
    /\ EngineNew
    /\ StoreNew
    /\ NameIdle
    /\ ClientIdle
    /\ InitThreads

\* The Term of the id field a stored document is indexed under
id_of(tdoc) == tdoc[CHOOSE k \in DOMAIN tdoc : tdoc[k].field = F_id].val.s

RECURSIVE delete_term_first_only(_, _)
delete_term_first_only(docs, doc_id) ==
    IF docs = <<>> THEN <<>>
    ELSE IF id_of(Head(docs)) = doc_id THEN Tail(docs)
    ELSE <<Head(docs)>> \o delete_term_first_only(Tail(docs), doc_id)

\* writer.delete_term(Term::from_field_text(id_field, doc_id)) followed by the
\* commit: every document added before it whose id is doc_id is deleted.
delete_term(docs, doc_id) == SelectSeq(docs, LAMBDA d : id_of(d) # doc_id)

open_reader_stale(latest, previous) == previous

\* reader_builder().try_into(): a new reader loads the last commit
open_reader(latest, previous) == latest

last_commit == [version |-> commits.version, docs |-> disk[BOOKS].docs]

CanCall(t) == threads[t].pc = "idle" /\ acked.calls < MaxCalls

\* create_index by a thread; the insertion takes the write lock of indices,
\* which no reader may hold.
ThreadCreateIndex(t) ==
    /\ threads[t].pc = "idle"
    /\ locks.indices_readers = {}
    /\ CreateIndex(BOOKS, <<TitleField>>)
    /\ UNCHANGED <<nameVars, storeVars, clientVars, threadVars>>

\* add_documents up to handle.writer.write(): the read lock of indices is taken
\* and the handle looked up; without handle the call returns Err.
AddBegin(t, documents) ==
    /\ CanCall(t)
    /\ IF BOOKS \in DOMAIN indices
       THEN /\ threads' = [threads EXCEPT ![t] =
                    [IdleThread EXCEPT !.pc = "writer", !.call = "add_documents",
                                       !.documents = documents]]
            /\ locks' = [locks EXCEPT !.indices_readers = @ \cup {t}]
       ELSE /\ threads' = [threads EXCEPT ![t] =
                    [IdleThread EXCEPT !.call = "add_documents", !.ok = FALSE]]
            /\ UNCHANGED locks
    /\ acked' = [acked EXCEPT !.calls = @ + 1]
    /\ UNCHANGED <<nameVars, storeVars, clientVars, engineVars, commits>>

\* add_documents from handle.writer.write() to writer.commit(): the writer lock
\* is taken when free, every document is added, the writer commits.
AddCommit(t) ==
    /\ threads[t].pc = "writer"
    /\ threads[t].call = "add_documents"
    /\ locks.writer = "free"
    /\ locks' = [locks EXCEPT !.writer = t]
    /\ disk' = [disk EXCEPT ![BOOKS].docs =
                    @ \o tantivy_docs(indices[BOOKS], threads[t].documents)]
    /\ commits' = [version |-> commits.version + 1,
                   previous |-> last_commit,
                   added |-> [id \in ThreadIds |->
                        IF \E k \in DOMAIN threads[t].documents :
                                threads[t].documents[k].id = id
                        THEN commits.added[id] \cup {commits.version + 1}
                        ELSE commits.added[id]]]
    /\ threads' = [threads EXCEPT ![t].pc = "return",
                                  ![t].version = commits.version + 1]
    /\ UNCHANGED <<nameVars, storeVars, clientVars, indices, pinned_rules, synonyms, files, acked>>

\* add_documents returns Ok(()): the guards are dropped
AddReturn(t) ==
    /\ threads[t].pc = "return"
    /\ threads[t].call = "add_documents"
    /\ locks' = [indices_readers |-> locks.indices_readers \ {t}, writer |-> "free"]
    /\ acked' = [acked EXCEPT !.version = Max(@, threads[t].version)]
    /\ threads' = [threads EXCEPT ![t].pc = "idle"]
    /\ UNCHANGED <<nameVars, storeVars, clientVars, engineVars, commits>>

\* delete_document up to handle.writer.write()
DeleteBegin(t, doc_id) ==
    /\ CanCall(t)
    /\ IF BOOKS \in DOMAIN indices
       THEN /\ threads' = [threads EXCEPT ![t] =
                    [IdleThread EXCEPT !.pc = "writer", !.call = "delete_document",
                                       !.doc_id = doc_id]]
            /\ locks' = [locks EXCEPT !.indices_readers = @ \cup {t}]
       ELSE /\ threads' = [threads EXCEPT ![t] =
                    [IdleThread EXCEPT !.call = "delete_document", !.ok = FALSE]]
            /\ UNCHANGED locks
    /\ acked' = [acked EXCEPT !.calls = @ + 1]
    /\ UNCHANGED <<nameVars, storeVars, clientVars, engineVars, commits>>

\* delete_document from handle.writer.write() to writer.commit()
DeleteCommit(t) ==
    /\ threads[t].pc = "writer"
    /\ threads[t].call = "delete_document"
    /\ locks.writer = "free"
    /\ locks' = [locks EXCEPT !.writer = t]
    /\ disk' = [disk EXCEPT ![BOOKS].docs = delete_term(@, threads[t].doc_id)]
    /\ commits' = [commits EXCEPT !.version = @ + 1, !.previous = last_commit]
    /\ threads' = [threads EXCEPT ![t].pc = "return",
                                  ![t].version = commits.version + 1]
    /\ UNCHANGED <<nameVars, storeVars, clientVars, indices, pinned_rules, synonyms, files, acked>>

\* delete_document returns Ok(()): the guards are dropped
DeleteReturn(t) ==
    /\ threads[t].pc = "return"
    /\ threads[t].call = "delete_document"
    /\ locks' = [indices_readers |-> locks.indices_readers \ {t}, writer |-> "free"]
    /\ acked' = [acked EXCEPT !.version = Max(@, threads[t].version),
                              !.deleted[threads[t].doc_id] = Max(@, threads[t].version)]
    /\ threads' = [threads EXCEPT ![t].pc = "idle"]
    /\ UNCHANGED <<nameVars, storeVars, clientVars, engineVars, commits>>

\* A read is called. The record keeps what the calls that had returned by now
\* have made known: the highest commit a write or a read has returned from, and
\* per id the commit of the last delete_document that has returned.
ReadBegin(t, kind) ==
    /\ CanCall(t)
    /\ threads' = [threads EXCEPT ![t] =
            [IdleThread EXCEPT !.pc = "reader", !.call = kind,
                               !.floor = acked.version, !.deleted = acked.deleted]]
    /\ acked' = [acked EXCEPT !.calls = @ + 1]
    /\ UNCHANGED <<nameVars, storeVars, clientVars, engineVars, locks, commits>>

\* The ids a searcher of the given commit must not show to a read that was
\* called with these returned deletes: deleted, and not added by a later commit
\* up to the searcher's.
banned_ids(deleted, version) ==
    {id \in ThreadIds :
        /\ deleted[id] > 0
        /\ ~ \E v \in commits.added[id] : v > deleted[id] /\ v <= version}

\* The read takes the read lock of indices, looks the handle up (Err without
\* one) and builds its reader and searcher.
ReadOpen(t) ==
    /\ threads[t].pc = "reader"
    /\ IF BOOKS \in DOMAIN indices
       THEN LET searcher == open_reader(last_commit, commits.previous)
            IN  /\ threads' = [threads EXCEPT
                        ![t].pc = "return",
                        ![t].version = searcher.version,
                        ![t].docs = searcher.docs,
                        ![t].banned = banned_ids(threads[t].deleted, searcher.version)]
                /\ locks' = [locks EXCEPT !.indices_readers = @ \cup {t}]
       ELSE /\ threads' = [threads EXCEPT ![t].pc = "idle", ![t].ok = FALSE]
            /\ UNCHANGED locks
    /\ UNCHANGED <<nameVars, storeVars, clientVars, engineVars, commits, acked>>

\* search returns what search_internal computes on its searcher
SearchReturn(t) ==
    /\ threads[t].pc = "return"
    /\ threads[t].call = "search"
    /\ LET result == search_internal(indices[BOOKS], threads[t].docs,
                                     get_or_default(pinned_rules, BOOKS),
                                     get_or_default(synonyms, BOOKS), ThreadRequest)
       IN  threads' = [threads EXCEPT ![t].pc = "idle", ![t].ok = result.ok,
                                      ![t].ids = Ids(result.hits),
                                      ![t].num_docs = result.total]
    /\ locks' = [locks EXCEPT !.indices_readers = @ \ {t}]
    /\ acked' = [acked EXCEPT !.version = Max(@, threads[t].version)]
    /\ UNCHANGED <<nameVars, storeVars, clientVars, engineVars, commits>>

\* get_document_count and get_index_stats return searcher.num_docs(); suggest
\* computes from the documents of its searcher (of suggest the record keeps the
\* searcher, not the suggestions).
CountReturn(t) ==
    /\ threads[t].pc = "return"
    /\ threads[t].call \in ReadKinds \ {"search"}
    /\ threads' = [threads EXCEPT ![t].pc = "idle",
                                  ![t].num_docs = Len(threads[t].docs)]
    /\ locks' = [locks EXCEPT !.indices_readers = @ \ {t}]
    /\ acked' = [acked EXCEPT !.version = Max(@, threads[t].version)]
    /\ UNCHANGED <<nameVars, storeVars, clientVars, engineVars, commits>>

Next ==
    \E t \in Threads :
        \/ ThreadCreateIndex(t)
        \/ \E documents \in ThreadBatches : AddBegin(t, documents)
        \/ AddCommit(t)
        \/ AddReturn(t)
        \/ \E doc_id \in ThreadIds : DeleteBegin(t, doc_id)
        \/ DeleteCommit(t)
        \/ DeleteReturn(t)
        \/ \E kind \in ReadKinds : ReadBegin(t, kind)
        \/ ReadOpen(t)
        \/ SearchReturn(t)
        \/ CountReturn(t)

Spec == Init /\ [][Next]_vars

Returned(t) == threads[t].pc = "idle" /\ threads[t].call # "none"
Writes == {"add_documents", "delete_document"}

\* C1: once delete_document(index, id) has returned success, no search that
\* begins afterwards returns a hit with that id, for as long as no later
\* add_documents has added the id again.
C1_DeleteVisible ==
    \A t \in Threads :
        (Returned(t) /\ threads[t].call = "search") =>
            \A k \in DOMAIN threads[t].ids : threads[t].ids[k] \notin threads[t].banned

\* A search called after the delete of an id that had been added returned a
\* hit, and none with that id.
C1_Witness ==
    \E t \in Threads :
        /\ Returned(t) /\ threads[t].call = "search" /\ threads[t].ok
        /\ threads[t].ids # <<>>
        /\ \E id \in threads[t].banned : commits.added[id] # {}

\* C2: a write has committed when it returns success; a read called after a
\* write returned has a searcher of that write's commit or a later one, whatever
\* the other threads do meanwhile; a read called after another read returned
\* has a searcher that is not older; the searcher of a commit holds the
\* documents of that commit.
C2_ReadYourWrites ==
    /\ acked.version <= commits.version
    /\ \A t \in Threads :
        /\ (Returned(t) /\ threads[t].call \in Writes /\ threads[t].ok) =>
                /\ threads[t].version >= 1
                /\ threads[t].version <= commits.version
        /\ (threads[t].call \in ReadKinds /\ threads[t].pc \in {"return", "idle"}) =>
                threads[t].version >= threads[t].floor
        /\ (threads[t].call \in ReadKinds /\ threads[t].pc = "return"
                /\ threads[t].version = commits.version) =>
                threads[t].docs = disk[BOOKS].docs

\* A read called after a write returned has returned with the commit of a
\* later write, which still holds the writer lock.
C2_Witness ==
    \E t \in Threads :
        /\ Returned(t) /\ threads[t].call \in ReadKinds /\ threads[t].ok
        /\ threads[t].floor >= 1
        /\ threads[t].version > threads[t].floor
        /\ \E u \in Threads : threads[u].pc = "return" /\ threads[u].call \in Writes

\* C10: an index holds at most one live document per id, and a search returns
\* no two hits with the same id.
C10_PrimaryKey ==
    /\ BOOKS \in DOMAIN disk =>
            \A i, j \in DOMAIN disk[BOOKS].docs :
                i # j => id_of(disk[BOOKS].docs[i]) # id_of(disk[BOOKS].docs[j])
    /\ \A t \in Threads :
            (Returned(t) /\ threads[t].call = "search") =>
                \A i, j \in DOMAIN threads[t].ids :
                    i # j => threads[t].ids[i] # threads[t].ids[j]

(***************************************************************************)
(* SpecSidecar: request threads add and clear the synonyms and the pinned  *)
(* rules of the index "books" concurrently, and the process may crash and  *)
(* be started again. A mutation takes the write lock of its map, changes   *)
(* the map and drops the lock; then save_synonyms / save_pinned_rules      *)
(* takes the read lock of the map, serialises it and calls std::fs::write, *)
(* which opens the file truncating it and then writes the content; the     *)
(* read guard is dropped when the save returns.                            *)
(***************************************************************************)
MaxMutations == 3
MaxRestarts == 1

SidecarMaps == {"synonyms", "pinned_rules"}
W_Ulv == <<"U", "l", "v">>

\* What add_synonyms / add_pinned_rules is called with
SidecarItems(m) ==
    IF m = "synonyms"
    THEN {<<SynonymGroup(<<W_wolf, W_ulv>>)>>, <<SynonymGroup(<<W_Ulv, W_varg>>)>>}
    ELSE {<<PinnedRule(<<W_wolf>>, <<<<"1">>>>)>>}

map_of(m) == IF m = "synonyms" THEN synonyms ELSE pinned_rules
file_of(m) == IF m = "synonyms" THEN SYNONYMS_JSON ELSE PINNED_RULES_JSON

\* HashMap::remove
remove(map, key) == [x \in DOMAIN map \ {key} |-> map[x]]

IdleCaller == [pc |-> "idle", call |-> "none", map |-> "none", content |-> EMPTY_CONTENT]

InitSidecar ==
    /\ EngineNew
    /\ StoreNew
    /\ NameIdle
    /\ ClientIdle
    /\ threads = [t \in Threads |-> IdleCaller]
    /\ locks = [m \in SidecarMaps |-> [readers |-> {}, writer |-> "free"]]
    /\ commits = <<>>
    /\ acked = [calls |-> 0, restarts |-> 0,
                persisted |-> [m \in SidecarMaps |-> EmptyMap],
                crash |-> [quiet |-> TRUE,
                           memory |-> [m \in SidecarMaps |-> EmptyMap],
                           before |-> [m \in SidecarMaps |-> EmptyMap],
                           writing |-> [m \in SidecarMaps |-> {}],
                           loaded |-> [m \in SidecarMaps |-> EmptyMap]]]

guard_kept(t) == t

\* drop(synonyms) / drop(pinned) / drop(rules): the holder of the write lock
\* after the mutation has dropped its guard
guard_after_drop(t) == "free"

readers_without(readers, t) == readers

\* let synonyms = self.synonyms.read().unwrap(): the holders of the read lock
\* while save_synonyms serialises and writes
readers_with(readers, t) == readers \cup {t}

\* The map is replaced under its write lock, which is taken when nobody holds
\* the lock and dropped before the save.
Mutated(t, m, call, new_map) ==
    /\ threads[t].pc = "idle"
    /\ acked.calls < MaxMutations
    /\ locks[m].readers = {}
    /\ locks[m].writer = "free"
    /\ synonyms' = IF m = "synonyms" THEN new_map ELSE synonyms
    /\ pinned_rules' = IF m = "pinned_rules" THEN new_map ELSE pinned_rules
    /\ locks' = [locks EXCEPT ![m].writer = guard_after_drop(t)]
    /\ threads' = [threads EXCEPT ![t] =
            [IdleCaller EXCEPT !.pc = "save", !.call = call, !.map = m]]
    /\ acked' = [acked EXCEPT !.calls = @ + 1]
    /\ UNCHANGED <<nameVars, storeVars, clientVars, indices, disk, files, commits>>

\* add_synonyms / add_pinned_rules up to the save: entry(index).or_default(),
\* extend
SidecarAdd(t, m, items) ==
    Mutated(t, m, "add", insert(map_of(m), BOOKS, get_or_default(map_of(m), BOOKS) \o items))

\* clear_synonyms / clear_pinned_rules up to the save: remove(index)
SidecarClear(t, m) ==
    Mutated(t, m, "clear", remove(map_of(m), BOOKS))

\* save_synonyms / save_pinned_rules up to std::fs::write: the read lock is
\* taken when no writer holds the lock, and the map is serialised.
SaveLock(t) ==
    /\ threads[t].pc = "save"
    /\ locks[threads[t].map].writer = "free"
    /\ locks' = [locks EXCEPT ![threads[t].map].readers = readers_with(@, t)]
    /\ threads' = [threads EXCEPT ![t].pc = "open",
                                  ![t].content = to_string_pretty(map_of(threads[t].map))]
    /\ UNCHANGED <<nameVars, storeVars, clientVars, engineVars, commits, acked>>

\* std::fs::write, first half: the file is created or truncated
SaveOpen(t) ==
    /\ threads[t].pc = "open"
    /\ files' = insert(files, file_of(threads[t].map), EMPTY_CONTENT)
    /\ threads' = [threads EXCEPT ![t].pc = "write"]
    /\ UNCHANGED <<nameVars, storeVars, clientVars, indices, disk, synonyms, pinned_rules,
                   locks, commits, acked>>

\* std::fs::write, second half, and the return: the content is written, the
\* read guard dropped, the call returns Ok.
SaveWrite(t) ==
    /\ threads[t].pc = "write"
    /\ files' = insert(files, file_of(threads[t].map), threads[t].content)
    /\ locks' = [locks EXCEPT ![threads[t].map].readers = @ \ {t}]
    /\ threads' = [threads EXCEPT ![t].pc = "idle"]
    /\ acked' = [acked EXCEPT !.persisted[threads[t].map] = threads[t].content.map]
    /\ UNCHANGED <<nameVars, storeVars, clientVars, indices, disk, synonyms, pinned_rules, commits>>

\* The process dies and is started again: the calls under way are gone, and
\* SearchEngine::new loads the two maps from the files. What is kept for
\* reference: whether every call had returned, the maps in memory and the last
\* completely written content before the crash, the contents of the rewrites
\* under way, and what was loaded.
SidecarRestart ==
    /\ acked.restarts < MaxRestarts
    /\ synonyms' = load_side_car(files, SYNONYMS_JSON)
    /\ pinned_rules' = load_side_car(files, PINNED_RULES_JSON)
    /\ threads' = [t \in Threads |-> IdleCaller]
    /\ locks' = [m \in SidecarMaps |-> [readers |-> {}, writer |-> "free"]]
    /\ acked' = [acked EXCEPT
            !.restarts = @ + 1,
            !.crash = [quiet |-> \A t \in Threads : threads[t].pc = "idle",
                       memory |-> [m \in SidecarMaps |-> map_of(m)],
                       before |-> acked.persisted,
                       writing |-> [m \in SidecarMaps |->
                            {threads[t].content.map : t \in
                                {u \in Threads : threads[u].map = m /\ threads[u].pc = "write"}}],
                       loaded |-> [m \in SidecarMaps |-> load_side_car(files, file_of(m))]]]
    /\ UNCHANGED <<nameVars, storeVars, clientVars, indices, disk, files, commits>>

NextSidecar ==
    \/ \E t \in Threads, m \in SidecarMaps :
            \/ \E items \in SidecarItems(m) : SidecarAdd(t, m, items)
            \/ SidecarClear(t, m)
    \/ \E t \in Threads :
            \/ SaveLock(t)
            \/ SaveOpen(t)
            \/ SaveWrite(t)
    \/ SidecarRestart

SpecSidecar == InitSidecar /\ [][NextSidecar]_vars

LowerTerms(group) == {to_lowercase(group.terms[k]) : k \in DOMAIN group.terms}
AllReturned == \A t \in Threads : threads[t].pc = "idle"
Rewriting(t) == threads[t].pc \in {"open", "write"}

\* C11: within the groups stored for one index, no term (compared in
\* lowercase) belongs to more than one synonym group.
C11_OneGroupPerTerm ==
    \A name \in DOMAIN synonyms :
        \A i, j \in DOMAIN synonyms[name] :
            i # j => LowerTerms(synonyms[name][i]) \cap LowerTerms(synonyms[name][j]) = {}

\* C13: a start after a crash loads, for each side-car map, the last
\* completely written content or the content of a rewrite that was under way.
C13_AtomicRewrite ==
    acked.restarts > 0 =>
        \A m \in SidecarMaps :
            acked.crash.loaded[m] \in {acked.crash.before[m]} \cup acked.crash.writing[m]

\* C14: when every add and clear call has returned, each side-car file holds
\* the map in memory, and a restart then loads the maps as they were.
C14_FileEqualsMemory ==
    /\ AllReturned => \A m \in SidecarMaps : load_side_car(files, file_of(m)) = map_of(m)
    /\ (acked.restarts > 0 /\ acked.crash.quiet) =>
            \A m \in SidecarMaps : acked.crash.loaded[m] = acked.crash.memory[m]

\* Two add_synonyms calls have returned, and a restart after them loaded the
\* map with both groups.
C14_Witness ==
    /\ AllReturned
    /\ acked.restarts > 0 /\ acked.crash.quiet
    /\ BOOKS \in DOMAIN acked.crash.loaded["synonyms"]
    /\ Len(acked.crash.loaded["synonyms"][BOOKS]) = 2
    /\ synonyms = acked.crash.loaded["synonyms"]

\* C16 as stated: the thread that rewrites the file holds no lock on the map,
\* neither shared nor exclusive.
C16_AsStated ==
    \A t \in Threads :
        Rewriting(t) =>
            /\ locks[threads[t].map].writer # t
            /\ t \notin locks[threads[t].map].readers

\* C16: a mutation has released the write lock of its map before its save
\* begins, and the thread that rewrites the file holds the read lock of the
\* map and no write lock.
C16_SharedWhileRewriting ==
    \A t \in Threads :
        /\ threads[t].pc \in {"save", "open", "write"} =>
                locks[threads[t].map].writer # t
        /\ Rewriting(t) => t \in locks[threads[t].map].readers

\* A thread is between the truncation and the write of its file while the
\* other thread waits to save its mutation of the same map.
C16_Witness ==
    \E t, u \in Threads :
        /\ t # u
        /\ threads[t].pc = "write"
        /\ threads[u].pc = "save"
        /\ threads[u].map = threads[t].map

(***************************************************************************)
(* SpecExpand: expand_query_with_synonyms applied to query strings made of *)
(* one to MaxItems items separated by one space: plain words, boolean      *)
(* operators, words with ':', '*' or '?', and double-quoted phrases, with  *)
(* and without a synonym group stored for the index.                       *)
(***************************************************************************)
MaxItems == 2

Quoted(s) == <<"\"">> \o s \o <<"\"">>

ExpandPlain == {W_wolf, W_Ulv, W_bear}
ExpandSkipped == {<<"A", "N", "D">>, <<"o", "r">>,
                  W_title \o <<":">> \o <<"B">> \o Tail(W_bear),
                  <<"W", "o", "l", "*">>, <<"w", "h", "?", "t">>}
ExpandPhrases == {Quoted(<<"B", "i", "g", " ">> \o W_wolf), Quoted(W_wolf)}
ExpandItems == ExpandPlain \cup ExpandSkipped \cup ExpandPhrases
ExpandItemLists == UNION {[1..n -> ExpandItems] : n \in 1..MaxItems}

InitExpand ==
    /\ EngineNew
    /\ StoreNew
    /\ ThreadsIdle
    /\ NameIdle
    /\ client = [phase |-> "setup"]
    /\ replies = <<>>

ExpandAddSynonyms ==
    /\ client.phase = "setup"
    /\ BOOKS \notin DOMAIN synonyms
    /\ AddSynonyms(BOOKS, <<SynonymGroup(<<W_wolf, W_ulv>>)>>)
    /\ UNCHANGED <<nameVars, storeVars, threadVars, clientVars>>

\* The expansion search_internal begins with, for the query made of the items
ExpandQuery ==
    /\ client.phase = "setup"
    /\ \E items \in ExpandItemLists :
          replies' = <<[items |-> items,
                        expanded |-> expand_query_with_synonyms(
                                        get_or_default(synonyms, BOOKS),
                                        join(items, <<" ">>))]>>
    /\ client' = [client EXCEPT !.phase = "done"]
    /\ UNCHANGED <<nameVars, storeVars, threadVars, engineVars>>

NextExpand == ExpandAddSynonyms \/ ExpandQuery

SpecExpand == InitExpand /\ [][NextExpand]_vars

\* What the expansion is to make of one item: a phrase and a skipped token
\* stay as they are, any other token is lowercased or replaced by the
\* parenthesised OR of its group.
ItemExpected(groups, item) ==
    IF item \in ExpandPhrases \cup ExpandSkipped THEN item
    ELSE LET expanded == expand_with_synonyms(groups, item)
         IN  IF Len(expanded) > 1
             THEN <<"(">> \o join(expanded, <<" ", "O", "R", " ">>) \o <<")">>
             ELSE to_lowercase(item)

\* C12: every quoted phrase comes out verbatim, in its quotes and in its place
\* among the tokens; every operator and every token with ':', '*' or '?' comes
\* out unchanged; only the other tokens are lowercased or expanded.
C12_SkippedVerbatim ==
    \A k \in DOMAIN replies :
        replies[k].expanded =
            join([i \in DOMAIN replies[k].items |->
                      ItemExpected(get_or_default(synonyms, BOOKS), replies[k].items[i])],
                 <<" ">>)

\* The same for the queries without a quoted phrase
C12_WithoutPhrases ==
    \A k \in DOMAIN replies :
        (\A i \in DOMAIN replies[k].items : replies[k].items[i] \notin ExpandPhrases) =>
            replies[k].expanded =
                join([i \in DOMAIN replies[k].items |->
                          ItemExpected(get_or_default(synonyms, BOOKS), replies[k].items[i])],
                     <<" ">>)

(***************************************************************************)
(* SpecLife: request threads create and delete the index "books" while     *)
(* others read it and write to it. create_index builds the directory, the  *)
(* index and the writer, and then inserts the handle under the write lock  *)
(* of SearchEngine.indices. delete_index takes that write lock, removes    *)
(* the handle, removes the directory, and drops the lock when it returns.  *)
(* Reads and writes hold the read lock from the lookup of the handle until *)
(* they return.                                                            *)
(***************************************************************************)
MaxLifeCalls == 4

LifeDoc == TitleDoc(<<"1">>, W_wolf)

IdleLife == [pc |-> "idle", call |-> "none", ok |-> TRUE, raced |-> FALSE]

InitLife ==
    /\ EngineNew
    /\ StoreNew
    /\ NameIdle
    /\ ClientIdle
    /\ threads = [t \in Threads |-> IdleLife]
    /\ locks = [readers |-> {}, writer |-> "free", handle_writer |-> "free"]
    /\ commits = <<>>
    /\ acked = [calls |-> 0, raced |-> FALSE]

LifeCall(t) == threads[t].pc = "idle" /\ acked.calls < MaxLifeCalls

write_lock_ignores_readers(l) == l.writer = "free"

\* self.indices.write() returns: nobody holds the lock
write_lock_free(l) == l.readers = {} /\ l.writer = "free"

\* self.indices.read() returns: no writer holds the lock
read_lock_free(l) == l.writer = "free"

\* create_index up to the insertion: create_dir_all, Index::create_in_dir,
\* which fails when the directory holds an index, and index.writer.
LifeCreateFs(t) ==
    /\ LifeCall(t)
    /\ IF BOOKS \in DOMAIN disk
       THEN /\ threads' = [threads EXCEPT ![t] =
                    [IdleLife EXCEPT !.call = "create_index", !.ok = FALSE]]
            /\ UNCHANGED disk
       ELSE /\ threads' = [threads EXCEPT ![t] =
                    [IdleLife EXCEPT !.pc = "insert", !.call = "create_index"]]
            /\ disk' = insert(disk, BOOKS,
                    [schema |-> create_index_schema(<<TitleField>>).schema, docs |-> <<>>])
    /\ acked' = [acked EXCEPT !.calls = @ + 1]
    /\ UNCHANGED <<nameVars, storeVars, clientVars, indices, pinned_rules, synonyms, files,
                   locks, commits>>

\* create_index, the insertion: the write lock is taken for the statement
\* that inserts the handle. Kept for reference: whether a delete_index
\* removed the directory between the two steps of this create_index.
LifeCreateInsert(t) ==
    /\ threads[t].pc = "insert"
    /\ write_lock_free(locks)
    /\ indices' = insert(indices, BOOKS,
            IndexHandle(create_index_schema(<<TitleField>>).schema, <<TitleField>>))
    /\ threads' = [threads EXCEPT ![t].pc = "idle"]
    /\ acked' = [acked EXCEPT !.raced = threads[t].raced]
    /\ UNCHANGED <<nameVars, storeVars, clientVars, disk, pinned_rules, synonyms, files,
                   locks, commits>>

\* delete_index is called
LifeDeleteBegin(t) ==
    /\ LifeCall(t)
    /\ threads' = [threads EXCEPT ![t] =
            [IdleLife EXCEPT !.pc = "lock", !.call = "delete_index"]]
    /\ acked' = [acked EXCEPT !.calls = @ + 1]
    /\ UNCHANGED <<nameVars, storeVars, clientVars, engineVars, locks, commits>>

\* delete_index: self.indices.write() and indices.remove(index_name)
LifeDeleteLock(t) ==
    /\ threads[t].pc = "lock"
    /\ write_lock_free(locks)
    /\ locks' = [locks EXCEPT !.writer = t]
    /\ indices' = remove(indices, BOOKS)
    /\ threads' = [threads EXCEPT ![t].pc = "remove_dir"]
    /\ UNCHANGED <<nameVars, storeVars, clientVars, disk, pinned_rules, synonyms, files,
                   commits, acked>>

\* delete_index: remove_dir_all when the path exists
LifeDeleteRemoveDir(t) ==
    /\ threads[t].pc = "remove_dir"
    /\ disk' = remove(disk, BOOKS)
    /\ threads' = [u \in Threads |->
            IF u = t THEN [threads[t] EXCEPT !.pc = "unlock"]
            ELSE IF threads[u].pc = "insert" THEN [threads[u] EXCEPT !.raced = TRUE]
            ELSE threads[u]]
    /\ UNCHANGED <<nameVars, storeVars, clientVars, indices, pinned_rules, synonyms, files,
                   locks, commits, acked>>

\* delete_index returns Ok(()): the write guard is dropped
LifeDeleteReturn(t) ==
    /\ threads[t].pc = "unlock"
    /\ locks' = [locks EXCEPT !.writer = "free"]
    /\ threads' = [threads EXCEPT ![t].pc = "idle"]
    /\ UNCHANGED <<nameVars, storeVars, clientVars, engineVars, commits, acked>>

\* A read (search, suggest, get_index_stats, get_document_count) up to its
\* searcher: the read lock is taken, the handle looked up (Err without one).
LifeReadOpen(t, kind) ==
    /\ LifeCall(t)
    /\ read_lock_free(locks)
    /\ IF BOOKS \in DOMAIN indices
       THEN /\ threads' = [threads EXCEPT ![t] =
                    [IdleLife EXCEPT !.pc = "reading", !.call = kind]]
            /\ locks' = [locks EXCEPT !.readers = @ \cup {t}]
       ELSE /\ threads' = [threads EXCEPT ![t] =
                    [IdleLife EXCEPT !.call = kind, !.ok = FALSE]]
            /\ UNCHANGED locks
    /\ acked' = [acked EXCEPT !.calls = @ + 1]
    /\ UNCHANGED <<nameVars, storeVars, clientVars, engineVars, commits>>

\* The read computes from the files of the index through its handle and
\* returns; the library fails when the files are gone.
LifeReadReturn(t) ==
    /\ threads[t].pc = "reading"
    /\ threads' = [threads EXCEPT ![t].pc = "idle", ![t].ok = BOOKS \in DOMAIN disk]
    /\ locks' = [locks EXCEPT !.readers = @ \ {t}]
    /\ UNCHANGED <<nameVars, storeVars, clientVars, engineVars, commits, acked>>

\* add_documents / delete_document up to handle.writer.write()
LifeWriteBegin(t, call) ==
    /\ LifeCall(t)
    /\ read_lock_free(locks)
    /\ IF BOOKS \in DOMAIN indices
       THEN /\ threads' = [threads EXCEPT ![t] =
                    [IdleLife EXCEPT !.pc = "writer", !.call = call]]
            /\ locks' = [locks EXCEPT !.readers = @ \cup {t}]
       ELSE /\ threads' = [threads EXCEPT ![t] =
                    [IdleLife EXCEPT !.call = call, !.ok = FALSE]]
            /\ UNCHANGED locks
    /\ acked' = [acked EXCEPT !.calls = @ + 1]
    /\ UNCHANGED <<nameVars, storeVars, clientVars, engineVars, commits>>

\* add_documents / delete_document from handle.writer.write() to the commit,
\* which writes into the directory and fails when it is gone
LifeWriteCommit(t) ==
    /\ threads[t].pc = "writer"
    /\ locks.handle_writer = "free"
    /\ locks' = [locks EXCEPT !.handle_writer = t]
    /\ threads' = [threads EXCEPT ![t].pc = "return", ![t].ok = BOOKS \in DOMAIN disk]
    /\ disk' = IF BOOKS \notin DOMAIN disk THEN disk
               ELSE IF threads[t].call = "add_documents"
               THEN [disk EXCEPT ![BOOKS].docs =
                        @ \o tantivy_docs(indices[BOOKS], <<LifeDoc>>)]
               ELSE [disk EXCEPT ![BOOKS].docs = delete_term(@, LifeDoc.id)]
    /\ UNCHANGED <<nameVars, storeVars, clientVars, indices, pinned_rules, synonyms, files,
                   commits, acked>>

\* add_documents / delete_document return: both guards are dropped
LifeWriteReturn(t) ==
    /\ threads[t].pc = "return"
    /\ locks' = [locks EXCEPT !.handle_writer = "free", !.readers = @ \ {t}]
    /\ threads' = [threads EXCEPT ![t].pc = "idle"]
    /\ UNCHANGED <<nameVars, storeVars, clientVars, engineVars, commits, acked>>

NextLife ==
    \E t \in Threads :
        \/ LifeCreateFs(t)
        \/ LifeCreateInsert(t)
        \/ LifeDeleteBegin(t)
        \/ LifeDeleteLock(t)
        \/ LifeDeleteRemoveDir(t)
        \/ LifeDeleteReturn(t)
        \/ \E kind \in ReadKinds : LifeReadOpen(t, kind)
        \/ LifeReadReturn(t)
        \/ \E call \in Writes : LifeWriteBegin(t, call)
        \/ LifeWriteCommit(t)
        \/ LifeWriteReturn(t)

SpecLife == InitLife /\ [][NextLife]_vars

UsesHandle(t) == threads[t].pc \in {"reading", "writer", "return"}

\* C15: a thread that holds the write lock of SearchEngine.indices takes no
\* step that works on the filesystem or the segment store (the steps of a
\* thread are those that move its position).
C15_NoWorkUnderWriteLock ==
    [][\A t \in Threads :
            (locks.writer = t /\ threads'[t].pc # threads[t].pc) => disk' = disk]_vars

\* C18: delete_index has removed the handle when it removes the directory,
\* and while a read or a write uses a handle, the directory of its index is
\* neither removed nor being removed (for a handle whose create_index did not
\* run together with a delete_index).
C18_NoHandleWithoutDirectory ==
    /\ \A t \in Threads :
            threads[t].pc \in {"remove_dir", "unlock"} => BOOKS \notin DOMAIN indices
    /\ \A t \in Threads :
            (UsesHandle(t) /\ ~acked.raced) =>
                /\ BOOKS \in DOMAIN disk
                /\ \A u \in Threads : threads[u].pc \notin {"remove_dir", "unlock"}

\* A delete_index waits for the lock while a read or a write uses the handle
\* of the index.
C18_Witness ==
    \E t, u \in Threads :
        /\ threads[t].pc = "lock"
        /\ UsesHandle(u)
        /\ ~acked.raced

(***************************************************************************)
(* SpecWriters: request threads call add_documents and delete_document on  *)
(* the indexes "books" and "films". The steps of a call are the lookup of  *)
(* the handle, handle.writer.write(), one writer.add_document per document *)
(* (or the delete_term), the commit, and the return, which drops the       *)
(* guards. The documents a writer has been given and has not committed are *)
(* kept per index in commits.                                              *)
(***************************************************************************)
MaxWriterCalls == 3

FILMS == "films"
WriterIndexes == {BOOKS, FILMS}
WriterBatch == <<TitleDoc(<<"1">>, W_wolf), TitleDoc(<<"2">>, W_bear)>>

IdleWriter == [pc |-> "idle", call |-> "none", index |-> "none", documents |-> <<>>,
               ok |-> TRUE]

InitWriters ==
    /\ EngineNew
    /\ StoreNew
    /\ NameIdle
    /\ ClientIdle
    /\ threads = [t \in Threads |-> IdleWriter]
    /\ locks = [readers |-> {}, writer |-> "free",
                writers |-> [name \in WriterIndexes |-> "free"]]
    /\ commits = [name \in WriterIndexes |-> <<>>]
    /\ acked = [calls |-> 0, waited |-> FALSE, parallel |-> FALSE]

writer_shared(owner) == TRUE

\* handle.writer.write() returns: nobody holds the writer of the handle
writer_free(owner) == owner = "free"

InSection(t) == threads[t].pc \in {"add", "delete", "return"}

\* create_index, before any call on the index
WritersCreateIndex(name) ==
    /\ write_lock_free(locks)
    /\ CreateIndex(name, <<TitleField>>)
    /\ UNCHANGED <<nameVars, storeVars, clientVars, threadVars>>

\* add_documents / delete_document up to handle.writer.write(): the read lock
\* of indices and the lookup of the handle (Err without one)
WriterBegin(t, name, call) ==
    /\ threads[t].pc = "idle"
    /\ acked.calls < MaxWriterCalls
    /\ read_lock_free(locks)
    /\ IF name \in DOMAIN indices
       THEN /\ threads' = [threads EXCEPT ![t] =
                    [IdleWriter EXCEPT !.pc = "lock", !.call = call, !.index = name,
                                       !.documents = WriterBatch]]
            /\ locks' = [locks EXCEPT !.readers = @ \cup {t}]
       ELSE /\ threads' = [threads EXCEPT ![t] =
                    [IdleWriter EXCEPT !.call = call, !.index = name, !.ok = FALSE]]
            /\ UNCHANGED locks
    /\ acked' = [acked EXCEPT !.calls = @ + 1]
    /\ UNCHANGED <<nameVars, storeVars, clientVars, engineVars, commits>>

\* handle.writer.write(). Kept for reference: that a call entered its section
\* while a call on another index was inside its own.
WriterLock(t) ==
    /\ threads[t].pc = "lock"
    /\ writer_free(locks.writers[threads[t].index])
    /\ locks' = [locks EXCEPT !.writers[threads[t].index] = t]
    /\ threads' = [threads EXCEPT ![t].pc =
            IF threads[t].call = "add_documents" THEN "add" ELSE "delete"]
    /\ acked' = [acked EXCEPT !.parallel =
            @ \/ \E u \in Threads : InSection(u) /\ threads[u].index # threads[t].index]
    /\ UNCHANGED <<nameVars, storeVars, clientVars, engineVars, commits>>

\* writer.add_document for the next document of the call. Kept for reference:
\* that a call on the same index was waiting for the writer meanwhile.
WriterAddDocument(t) ==
    /\ threads[t].pc = "add"
    /\ threads[t].documents # <<>>
    /\ commits' = [commits EXCEPT ![threads[t].index] =
            Append(@, [by |-> t,
                       doc |-> tantivy_doc(indices[threads[t].index],
                                           Head(threads[t].documents))])]
    /\ threads' = [threads EXCEPT ![t].documents = Tail(@)]
    /\ acked' = [acked EXCEPT !.waited =
            @ \/ \E u \in Threads : threads[u].pc = "lock"
                                    /\ threads[u].index = threads[t].index]
    /\ UNCHANGED <<nameVars, storeVars, clientVars, engineVars, locks>>

\* writer.commit() of add_documents: what the writer has been given becomes
\* the committed state
WriterCommitAdd(t) ==
    /\ threads[t].pc = "add"
    /\ threads[t].documents = <<>>
    /\ disk' = [disk EXCEPT ![threads[t].index].docs =
            @ \o [k \in DOMAIN commits[threads[t].index] |->
                        commits[threads[t].index][k].doc]]
    /\ commits' = [commits EXCEPT ![threads[t].index] = <<>>]
    /\ threads' = [threads EXCEPT ![t].pc = "return"]
    /\ UNCHANGED <<nameVars, storeVars, clientVars, indices, pinned_rules, synonyms, files,
                   locks, acked>>

\* delete_document: writer.delete_term and writer.commit()
WriterCommitDelete(t) ==
    /\ threads[t].pc = "delete"
    /\ disk' = [disk EXCEPT ![threads[t].index].docs =
            delete_term(@, WriterBatch[1].id)
                \o [k \in DOMAIN commits[threads[t].index] |->
                        commits[threads[t].index][k].doc]]
    /\ commits' = [commits EXCEPT ![threads[t].index] = <<>>]
    /\ threads' = [threads EXCEPT ![t].pc = "return"]
    /\ UNCHANGED <<nameVars, storeVars, clientVars, indices, pinned_rules, synonyms, files,
                   locks, acked>>

\* The call returns Ok(()): both guards are dropped
WriterReturn(t) ==
    /\ threads[t].pc = "return"
    /\ locks' = [locks EXCEPT !.writers[threads[t].index] = "free",
                              !.readers = @ \ {t}]
    /\ threads' = [threads EXCEPT ![t].pc = "idle"]
    /\ UNCHANGED <<nameVars, storeVars, clientVars, engineVars, commits, acked>>

NextWriters ==
    \/ \E name \in WriterIndexes : WritersCreateIndex(name)
    \/ \E t \in Threads :
            \/ \E name \in WriterIndexes, call \in Writes : WriterBegin(t, name, call)
            \/ WriterLock(t)
            \/ WriterAddDocument(t)
            \/ WriterCommitAdd(t)
            \/ WriterCommitDelete(t)
            \/ WriterReturn(t)

SpecWriters == InitWriters /\ [][NextWriters]_vars

\* C17: of the calls on one index at most one is between taking the writer
\* and its return, and the documents the writer of an index has been given
\* and has not committed are those of that call alone; in the committed
\* documents the first document of a batch is followed by the second of the
\* same batch.
C17_WritersSerialize ==
    /\ \A t, u \in Threads :
            (t # u /\ InSection(t) /\ InSection(u)) => threads[t].index # threads[u].index
    /\ \A name \in WriterIndexes :
            \A k \in DOMAIN commits[name] :
                /\ locks.writers[name] = commits[name][k].by
                /\ threads[commits[name][k].by].pc = "add"
    /\ \A name \in DOMAIN disk :
            \A k \in DOMAIN disk[name].docs :
                id_of(disk[name].docs[k]) = WriterBatch[1].id =>
                    /\ k < Len(disk[name].docs)
                    /\ id_of(disk[name].docs[k + 1]) = WriterBatch[2].id

\* A call has added a document while a call on the same index waited for the
\* writer, and a call has entered its section while a call on the other index
\* was inside its own, where the two are now.
C17_Witness ==
    /\ acked.waited
    /\ acked.parallel
    /\ \E t, u \in Threads :
            /\ InSection(t) /\ InSection(u)
            /\ threads[t].index # threads[u].index

(***************************************************************************)
(* SpecBulk: a caller creates the index "books", adds a document or not,   *)
(* and posts one bulk request: a list of at most MaxBulkOps operations,    *)
(* well formed (index with a document, delete with an id) or not (unknown  *)
(* type, index without document, delete without id), on the index or on a  *)
(* name that does not validate. The metadata store is left out.            *)
(***************************************************************************)
MaxBulkOps == 3
MAX_BULK_OPERATIONS == 1000

W_books == <<"b", "o", "o", "k", "s">>
BulkNames == {W_books, <<"b", "/", "d">>}

\* A BulkOperation: the type and the two optional members
BulkOperation(operation, document, id) ==
    [operation |-> operation, document |-> document, id |-> id]

BulkOperations ==
    {BulkOperation("index", Some(TitleDoc(<<"1">>, W_wolf)), None),
     BulkOperation("index", Some(TitleDoc(<<"2">>, W_bear)), None),
     BulkOperation("delete", None, Some(<<"1">>)),
     BulkOperation("index", None, Some(<<"1">>)),
     BulkOperation("delete", Some(TitleDoc(<<"1">>, W_wolf)), None),
     BulkOperation("upsert", Some(TitleDoc(<<"1">>, W_wolf)), Some(<<"1">>))}

BulkOperationLists == UNION {[1..n -> BulkOperations] : n \in 0..MaxBulkOps}

\* validate_bulk_operation_count: 200 or 400
validate_bulk_operation_count(count) == IF count > MAX_BULK_OPERATIONS THEN 400 ELSE 200

error_entry_one_based(idx, e) == [position |-> idx + 1, e |-> e]

\* format!("Operation {} failed: {}", idx, e): the entry of errors for the
\* operation at idx, with the position and the error kept apart
error_entry(idx, e) == [position |-> idx, e |-> e]

\* The match of bulk_operation on one operation, with the engine call it makes:
\* the Result (ok, and the error when not) and the committed documents of the
\* index afterwards. handles is the handle map, docs the committed documents.
bulk_result(handles, docs, op) ==
    CASE op.operation = "index" ->
            IF op.document.some
            THEN IF BOOKS \in DOMAIN handles
                 THEN [ok |-> TRUE, e |-> "",
                       docs |-> docs \o tantivy_docs(handles[BOOKS], <<op.document.v>>)]
                 ELSE [ok |-> FALSE, e |-> "Index not found", docs |-> docs]
            ELSE [ok |-> FALSE, e |-> "Missing document for index operation", docs |-> docs]
      [] op.operation = "delete" ->
            IF op.id.some
            THEN IF BOOKS \in DOMAIN handles
                 THEN [ok |-> TRUE, e |-> "", docs |-> delete_term(docs, op.id.v)]
                 ELSE [ok |-> FALSE, e |-> "Index not found", docs |-> docs]
            ELSE [ok |-> FALSE, e |-> "Missing id for delete operation", docs |-> docs]
      [] OTHER -> [ok |-> FALSE, e |-> "Unknown operation", docs |-> docs]

\* The match on the result of one operation: a counter goes up, and a failure
\* is pushed to errors
bulk_step(acc, idx, result) ==
    IF result.ok
    THEN [acc EXCEPT !.successful = @ + 1, !.docs = result.docs]
    ELSE [acc EXCEPT !.failed = @ + 1, !.errors = Append(@, error_entry(idx, result.e))]

\* The loop of bulk_operation from the operation at idx (counted from 0) on:
\* the counters, the errors and the committed documents at its end.
RECURSIVE bulk_loop(_, _, _, _)
bulk_loop(handles, operations, idx, acc) ==
    IF idx >= Len(operations) THEN acc
    ELSE bulk_loop(handles, operations, idx + 1,
                   bulk_step(acc, idx, bulk_result(handles, acc.docs, operations[idx + 1])))

\* The BulkResponse built after the loop
bulk_reply(total, acc) ==
    [reply |-> [status |-> 200, total |-> total, successful |-> acc.successful,
                failed |-> acc.failed, errors |-> acc.errors],
     docs |-> acc.docs]

\* The reply of a refused request
BulkRefused(status) ==
    [status |-> status, total |-> 0, successful |-> 0, failed |-> 0, errors |-> <<>>]

\* bulk_operation: the two validations, then the loop over the operations.
\* The reply, and the committed documents of "books" afterwards.
bulk_operation(handles, docs, index_name, operations) ==
    IF validate_index_name(index_name) # 200
    THEN [reply |-> BulkRefused(validate_index_name(index_name)), docs |-> docs]
    ELSE IF validate_bulk_operation_count(Len(operations)) # 200
    THEN [reply |-> BulkRefused(validate_bulk_operation_count(Len(operations))),
          docs |-> docs]
    ELSE bulk_reply(Len(operations),
                    bulk_loop(handles, operations, 0,
                              [successful |-> 0, failed |-> 0, errors |-> <<>>,
                               docs |-> docs]))

InitBulk ==
    /\ EngineNew
    /\ StoreNew
    /\ ThreadsIdle
    /\ NameIdle
    /\ client = [phase |-> "setup"]
    /\ replies = <<>>

BulkCreateIndex ==
    /\ client.phase = "setup"
    /\ CreateIndex(BOOKS, <<TitleField>>)
    /\ UNCHANGED <<nameVars, storeVars, threadVars, clientVars>>

BulkAddDocuments ==
    /\ client.phase = "setup"
    /\ BOOKS \in DOMAIN disk
    /\ disk[BOOKS].docs = <<>>
    /\ AddDocuments(BOOKS, <<TitleDoc(<<"1">>, W_bear)>>)
    /\ UNCHANGED <<nameVars, storeVars, threadVars, clientVars>>

\* The committed documents of "books", none without the index
BooksDocs == IF BOOKS \in DOMAIN disk THEN disk[BOOKS].docs ELSE <<>>

\* POST /indices/:name/bulk. The caller keeps the request, the reply, and the
\* committed documents before and after.
BulkPost ==
    /\ client.phase = "setup"
    /\ \E index_name \in BulkNames, operations \in BulkOperationLists :
          LET done == bulk_operation(indices, BooksDocs, index_name, operations)
          IN  /\ replies' = <<[index_name |-> index_name, operations |-> operations,
                               reply |-> done.reply, before |-> BooksDocs,
                               after |-> done.docs]>>
              /\ disk' = IF BOOKS \in DOMAIN disk
                         THEN [disk EXCEPT ![BOOKS].docs = done.docs] ELSE disk
    /\ client' = [client EXCEPT !.phase = "done"]
    /\ UNCHANGED <<nameVars, storeVars, threadVars, indices, pinned_rules, synonyms, files>>

NextBulk == BulkCreateIndex \/ BulkAddDocuments \/ BulkPost

SpecBulk == InitBulk /\ [][NextBulk]_vars

WellFormed(op) ==
    \/ op.operation = "index" /\ op.document.some
    \/ op.operation = "delete" /\ op.id.some

PassesValidation(r) ==
    NameWellFormed(r.index_name) /\ Len(r.operations) <= MAX_BULK_OPERATIONS

\* The positions, counted from 0, the errors of a reply are labelled with
ErrorPositions(r) == {r.reply.errors[k].position : k \in DOMAIN r.reply.errors}

\* The committed documents after the operations from position idx on that are
\* not among the failed positions have been applied in order
RECURSIVE AppliedFrom(_, _, _, _)
AppliedFrom(docs, operations, failed_positions, idx) ==
    IF idx >= Len(operations) THEN docs
    ELSE LET op == operations[idx + 1]
         IN  AppliedFrom(IF idx \in failed_positions THEN docs
                         ELSE IF op.operation = "index"
                         THEN docs \o <<tantivy_doc(indices[BOOKS], op.document.v)>>
                         ELSE SelectSeq(docs, LAMBDA d : id_of(d) # op.id.v),
                         operations, failed_positions, idx + 1)

\* C19: a bulk request that passes validation is answered with total = the
\* number of operations and successful + failed = total; errors has one
\* entry per failed operation, in the order of the operations, labelled with
\* the position of the operation; the operations after a failed one are still
\* carried out, and the index holds the effect of exactly the operations
\* counted as successful.
C19_BulkAccounting ==
    \A k \in DOMAIN replies :
        LET r == replies[k]
        IN  PassesValidation(r) =>
                /\ r.reply.status = 200
                /\ r.reply.total = Len(r.operations)
                /\ r.reply.successful + r.reply.failed = r.reply.total
                /\ Len(r.reply.errors) = r.reply.failed
                /\ \A i, j \in DOMAIN r.reply.errors :
                        i < j => r.reply.errors[i].position < r.reply.errors[j].position
                /\ ErrorPositions(r) =
                        {p \in 0..(Len(r.operations) - 1) :
                            ~WellFormed(r.operations[p + 1]) \/ BOOKS \notin DOMAIN indices}
                /\ r.after = AppliedFrom(r.before, r.operations, ErrorPositions(r), 0)

\* A request whose first operation failed and whose later operations changed
\* the index has been answered.
C19_Witness ==
    \E k \in DOMAIN replies :
        /\ PassesValidation(replies[k])
        /\ replies[k].reply.failed = 1
        /\ replies[k].reply.errors[1].position = 0
        /\ replies[k].reply.successful = 2
        /\ replies[k].after # replies[k].before
        /\ replies[k].after = disk[BOOKS].docs

\* C20: a bulk request with an operation of unknown type, an index operation
\* without a document or a delete operation without an id is answered with
\* status 400.
C20_MalformedRefused ==
    \A k \in DOMAIN replies :
        (\E i \in DOMAIN replies[k].operations : ~WellFormed(replies[k].operations[i])) =>
            replies[k].reply.status = 400

(***************************************************************************)
(* The metadata registry (MetadataStore) and the request handlers, which   *)
(* call the engine and then the registry                                   *)
(***************************************************************************)
\* MetadataStore::create_index: INSERT INTO indices, which fails on a name that
\* has a row (name is the primary key). Some(store) for Ok, None for Err.
metadata_create_index(store, name) ==
    IF name \in store.indices THEN None
    ELSE Some([store EXCEPT !.indices = @ \cup {name}])

\* MetadataStore::sync_indices_from_disk: INSERT OR IGNORE of every loaded name
sync_indices_from_disk(store, index_names) ==
    [store EXCEPT !.indices = @ \cup index_names]

\* MetadataStore::delete_index: the rows of documents with this index_name
\* are deleted, then the row of indices
metadata_delete_index(store, name) ==
    [indices |-> store.indices \ {name},
     documents |-> [id \in {x \in DOMAIN store.documents : store.documents[x] # name}
                        |-> store.documents[id]]]

\* MetadataStore::add_document: INSERT OR REPLACE INTO documents, whose primary
\* key is id alone: a row with this id is replaced whatever its index_name
metadata_add_document(store, index_name, doc_id) ==
    [store EXCEPT !.documents = insert(@, doc_id, index_name)]

\* MetadataStore::delete_document: DELETE FROM documents WHERE id = doc_id
metadata_delete_document(store, doc_id) ==
    [store EXCEPT !.documents = remove(@, doc_id)]

\* MetadataStore::reset_index_documents: the rows of the index are deleted,
\* then one row per id is inserted (OR REPLACE)
RECURSIVE metadata_add_documents(_, _, _)
metadata_add_documents(store, index_name, doc_ids) ==
    IF doc_ids = <<>> THEN store
    ELSE metadata_add_documents(metadata_add_document(store, index_name, Head(doc_ids)),
                                index_name, Tail(doc_ids))

reset_index_documents(store, index_name, doc_ids) ==
    metadata_add_documents(
        [store EXCEPT !.documents =
            [id \in {x \in DOMAIN @ : @[x] # index_name} |-> @[id]]],
        index_name, doc_ids)

\* MetadataStore::list_indices: every row of indices with the number of rows of
\* documents that carry its name (LEFT JOIN ... COUNT(d.id) GROUP BY i.name)
list_indices(store) ==
    [name \in store.indices |->
        Cardinality({id \in DOMAIN store.documents : store.documents[id] = name})]

DeleteIndexClearing(index_name) ==
    /\ indices' = remove(indices, index_name)
    /\ disk' = remove(disk, index_name)
    /\ synonyms' = remove(synonyms, index_name)
    /\ files' = insert(files, SYNONYMS_JSON, to_string_pretty(synonyms'))
    /\ UNCHANGED pinned_rules

\* SearchEngine::delete_index: the handle leaves the map, the directory of the
\* index is removed; the maps of synonyms and pinned rules are not touched
DeleteIndex(index_name) ==
    /\ indices' = remove(indices, index_name)
    /\ disk' = remove(disk, index_name)
    /\ UNCHANGED <<pinned_rules, synonyms, files>>

\* SearchEngine::delete_document by a caller that is alone
DeleteDocument(index_name, doc_id) ==
    /\ index_name \in DOMAIN indices
    /\ disk' = [disk EXCEPT ![index_name].docs = delete_term(@, doc_id)]
    /\ UNCHANGED <<indices, pinned_rules, synonyms, files>>

\* SearchEngine::clear_synonyms and clear_pinned_rules by a caller that is
\* alone: the entry of the index is removed, then the file is rewritten
ClearSynonyms(index_name) ==
    /\ synonyms' = remove(synonyms, index_name)
    /\ files' = insert(files, SYNONYMS_JSON, to_string_pretty(synonyms'))
    /\ UNCHANGED <<indices, disk, pinned_rules>>

ClearPinnedRules(index_name) ==
    /\ pinned_rules' = remove(pinned_rules, index_name)
    /\ files' = insert(files, PINNED_RULES_JSON, to_string_pretty(pinned_rules'))
    /\ UNCHANGED <<indices, disk, synonyms>>

\* The ids of a list of documents
RECURSIVE ids_of(_)
ids_of(documents) ==
    IF documents = <<>> THEN <<>> ELSE <<Head(documents).id>> \o ids_of(Tail(documents))

\* The handlers, for an index name that passes validate_index_name. status is
\* the HTTP status of the response.
\* handlers::create_index: the engine creates the index, then the registry
\* inserts the name; an error of either is answered 500
create_index_handler(name, fields, status) ==
    IF ~create_index_schema(fields).ok \/ name \in DOMAIN disk
    THEN status = 500 /\ UNCHANGED <<engineVars, storeVars>>
    ELSE /\ CreateIndex(name, fields)
         /\ IF metadata_create_index(metadata_store, name).some
            THEN /\ status = 201
                 /\ metadata_store' = metadata_create_index(metadata_store, name).v
            ELSE status = 500 /\ UNCHANGED storeVars

\* handlers::delete_index
delete_index_handler(name, status) ==
    /\ DeleteIndex(name)
    /\ metadata_store' = metadata_delete_index(metadata_store, name)
    /\ status = 200

\* handlers::add_documents: the engine adds and commits, then the registry
\* records every id of the request under the index name
add_documents_handler(index_name, documents, status) ==
    IF index_name \notin DOMAIN indices
    THEN status = 500 /\ UNCHANGED <<engineVars, storeVars>>
    ELSE /\ AddDocuments(index_name, documents)
         /\ metadata_store' =
                metadata_add_documents(metadata_store, index_name, ids_of(documents))
         /\ status = 201

\* handlers::delete_document: the engine deletes by id in the index, then the
\* registry deletes the row with this id
delete_document_handler(index_name, doc_id, status) ==
    IF index_name \notin DOMAIN indices
    THEN status = 500 /\ UNCHANGED <<engineVars, storeVars>>
    ELSE /\ DeleteDocument(index_name, doc_id)
         /\ metadata_store' = metadata_delete_document(metadata_store, doc_id)
         /\ status = 200

\* handlers::add_synonyms, clear_synonyms, add_pinned_rules, clear_pinned_rules
add_synonyms_handler(index_name, groups, status) ==
    AddSynonyms(index_name, groups) /\ UNCHANGED storeVars /\ status = 200

clear_synonyms_handler(index_name, status) ==
    ClearSynonyms(index_name) /\ UNCHANGED storeVars /\ status = 200

add_pinned_rules_handler(index_name, rules, status) ==
    AddPinnedRules(index_name, rules) /\ UNCHANGED storeVars /\ status = 200

clear_pinned_rules_handler(index_name, status) ==
    ClearPinnedRules(index_name) /\ UNCHANGED storeVars /\ status = 200

\* The handlers that read: get_synonyms, get_pinned_rules, list_indices, search
read_handler(status) ==
    UNCHANGED <<engineVars, storeVars>> /\ status = 200

(***************************************************************************)
(* SpecAuth: requests with and without an Authorization header, sent to    *)
(* the protected and the public routes of a server started with API_TOKENS *)
(***************************************************************************)
MaxRequests == 3

W_Bearer == <<"B", "e", "a", "r", "e", "r", " ">>

\* str::strip_prefix
strip_prefix(s, prefix) ==
    IF Len(s) >= Len(prefix) /\ SubSeq(s, 1, Len(prefix)) = prefix
    THEN Some(skip(s, Len(prefix)))
    ELSE None

\* main: API_TOKENS is split at the commas, the empty pieces are dropped, the
\* others are trimmed
RECURSIVE trim_all(_)
trim_all(pieces) ==
    IF pieces = <<>> THEN <<>> ELSE <<trim(Head(pieces))>> \o trim_all(Tail(pieces))

api_tokens_of(env) == trim_all(SelectSeq(split(env, ","), LAMBDA piece : piece # <<>>))

auth_middleware_any_bearer(api_tokens, header) ==
    api_tokens = <<>> \/ (header.some /\ strip_prefix(header.v, W_Bearer).some)

\* auth_middleware: TRUE when the request is handed to next.run, FALSE when it
\* is answered Err(StatusCode::UNAUTHORIZED). header is the Authorization
\* header of the request, None when there is none.
auth_middleware(api_tokens, header) ==
    IF api_tokens = <<>> THEN TRUE
    ELSE LET token == IF header.some THEN strip_prefix(header.v, W_Bearer) ELSE None
         IN  token.some /\ \E k \in DOMAIN api_tokens : api_tokens[k] = token.v

\* main: the two route tables; the middleware is layered on protected_routes
public_routes == {"health_check", "list_indices", "search", "answer",
                  "get_index_stats", "suggest"}
protected_routes == {"create_index", "delete_index", "add_documents",
                     "delete_document", "bulk_operation", "add_synonyms",
                     "get_synonyms", "clear_synonyms", "add_pinned_rules",
                     "get_pinned_rules", "clear_pinned_rules"}

\* The values of API_TOKENS the server is started with, and the Authorization
\* headers of the requests
AuthEnvs == {<<>>, <<"a">>, <<"a", ",", " ", "b">>, <<",", " ">>}
AuthHeaders ==
    {None, Some(W_Bearer \o <<"a">>), Some(W_Bearer \o <<"b">>),
     Some(W_Bearer \o <<"z">>), Some(W_Bearer), Some(W_Bearer \o <<" ", "a">>),
     Some(<<"b", "e", "a", "r", "e", "r", " ", "a">>), Some(<<"a">>),
     Some(<<"B", "a", "s", "i", "c", " ", "a">>)}
AuthRoutes == {"create_index", "delete_index", "add_documents", "delete_document",
               "add_synonyms", "get_synonyms", "clear_synonyms",
               "add_pinned_rules", "clear_pinned_rules", "list_indices", "search"}
Statuses == {200, 201, 400, 401, 500}

\* The handler of a route, run on a request for the index BOOKS
run_handler(route, status) ==
    CASE route = "create_index" -> create_index_handler(BOOKS, <<TitleField>>, status)
      [] route = "delete_index" -> delete_index_handler(BOOKS, status)
      [] route = "add_documents" ->
            add_documents_handler(BOOKS, <<TitleDoc(<<"1">>, W_wolf)>>, status)
      [] route = "delete_document" -> delete_document_handler(BOOKS, <<"1">>, status)
      [] route = "add_synonyms" ->
            add_synonyms_handler(BOOKS, <<SynonymGroup(<<W_wolf, W_ulv>>)>>, status)
      [] route = "clear_synonyms" -> clear_synonyms_handler(BOOKS, status)
      [] route = "add_pinned_rules" ->
            add_pinned_rules_handler(BOOKS, <<PinnedRule(<<W_wolf>>, <<<<"1">>>>)>>, status)
      [] route = "clear_pinned_rules" -> clear_pinned_rules_handler(BOOKS, status)
      [] OTHER -> read_handler(status)

InitAuth ==
    /\ EngineNew
    /\ StoreNew
    /\ NameIdle
    /\ ThreadsIdle
    /\ replies = <<>>
    /\ \E env \in AuthEnvs : client = [api_tokens |-> api_tokens_of(env), requests |-> 0]

AuthReply(route, header, reached, status) ==
    [route |-> route, header |-> header, reached |-> reached, status |-> status]

\* A request on a route that the middleware does not stand before, or that it
\* hands to the handler
AuthPassed(route, header) ==
    /\ client.requests < MaxRequests
    /\ route \in protected_routes => auth_middleware(client.api_tokens, header)
    /\ \E status \in Statuses :
        /\ run_handler(route, status)
        /\ replies' = <<AuthReply(route, header, TRUE, status)>>
    /\ client' = [client EXCEPT !.requests = @ + 1]
    /\ UNCHANGED <<nameVars, threadVars>>

\* A request that the middleware answers itself
AuthRefused(route, header) ==
    /\ client.requests < MaxRequests
    /\ route \in protected_routes
    /\ ~auth_middleware(client.api_tokens, header)
    /\ replies' = <<AuthReply(route, header, FALSE, 401)>>
    /\ client' = [client EXCEPT !.requests = @ + 1]
    /\ UNCHANGED <<nameVars, threadVars, engineVars, storeVars>>

NextAuth ==
    \/ \E route \in AuthRoutes, header \in AuthHeaders : AuthPassed(route, header)
    \/ \E route \in AuthRoutes, header \in AuthHeaders : AuthRefused(route, header)

SpecAuth == InitAuth /\ [][NextAuth]_vars

\* The request carries "Authorization: Bearer t" with t in the configured list
CarriesToken(api_tokens, header) ==
    /\ header.some
    /\ \E k \in DOMAIN api_tokens : header.v = W_Bearer \o api_tokens[k]

\* C21: with a non-empty token list, a request to a protected route reaches
\* its handler only if it carries "Authorization: Bearer t" with t in the list,
\* and is otherwise answered 401 with the indexes, the synonyms, the pinned
\* rules, the side-car files and the registry unchanged; with an empty list
\* every request reaches its handler.
C21_Authorization ==
    [][replies' # <<>> =>
        LET reply == replies'[1]
        IN  /\ (client.api_tokens # <<>> /\ reply.route \in protected_routes)
                => /\ reply.reached <=> CarriesToken(client.api_tokens, reply.header)
                   /\ ~reply.reached =>
                        /\ reply.status = 401
                        /\ UNCHANGED <<engineVars, storeVars>>
            /\ client.api_tokens = <<>> => reply.reached
            /\ reply.route \in public_routes => reply.reached]_vars

\* A server with tokens has created the index for a request that carried one,
\* and has then refused a delete_index that carried an unknown token
C21_Witness ==
    /\ client.api_tokens # <<>>
    /\ BOOKS \in DOMAIN indices
    /\ BOOKS \in metadata_store.indices
    /\ replies # <<>>
    /\ replies[1].route = "delete_index"
    /\ replies[1].header = Some(W_Bearer \o <<"z">>)
    /\ replies[1].status = 401

(***************************************************************************)
(* SpecAgg: searches with and without aggregations on one index            *)
(***************************************************************************)
MaxAggs == 2

\* An AggregationRequest (src/src/models.rs): name, type, field, interval
AggregationRequest(name, agg_type, field, interval) ==
    [name |-> name, agg_type |-> agg_type, field |-> field, interval |-> interval]

SupportedAggregations ==
    {"terms", "stats", "avg", "min", "max", "sum", "count", "cardinality",
     "histogram", "range", "percentiles", "extended_stats"}

\* The definition build_aggregation_request emits for one request: the kind of
\* the library ("count" is value_count), the field, and the interval of a
\* histogram (10 when the request has none)
agg_def(agg_req) ==
    [kind |-> IF agg_req.agg_type = "count" THEN "value_count" ELSE agg_req.agg_type,
     field |-> agg_req.field,
     interval |-> IF agg_req.agg_type = "histogram"
                  THEN (IF agg_req.interval.some THEN agg_req.interval.v ELSE 10)
                  ELSE 0]

build_aggregation_request_lenient(aggregations, agg_map) ==
    Some(agg_map)

\* build_aggregation_request: the map from the name of each request to its
\* definition, a later request replacing an earlier one of the same name; Err
\* (None) at the first request of an unsupported type.
RECURSIVE build_aggregation_request(_, _)
build_aggregation_request(aggregations, agg_map) ==
    IF aggregations = <<>> THEN Some(agg_map)
    ELSE IF Head(aggregations).agg_type \notin SupportedAggregations THEN None
    ELSE build_aggregation_request(Tail(aggregations),
                                   insert(agg_map, Head(aggregations).name,
                                          agg_def(Head(aggregations))))

\* searcher.search(query, AggregationCollector): Err (None) when the library
\* refuses the request or fails while it collects, else one result per name,
\* of which the number of matching documents is kept. A histogram whose
\* interval is not positive is always refused.
interval_refused(agg_req) ==
    \E name \in DOMAIN agg_req :
        agg_req[name].kind = "histogram" /\ agg_req[name].interval <= 0

collector_search(handle, q, docs, agg_req, library_fails) ==
    IF library_fails \/ interval_refused(agg_req) THEN None
    ELSE Some([name \in DOMAIN agg_req |->
                 [kind |-> agg_req[name].kind, field |-> agg_req[name].field,
                  doc_count |-> Count(handle, q, docs)]])

\* The match of search_internal on the aggregations: None for an empty list,
\* for a request that cannot be built and for a collector that fails
agg_results(handle, q, docs, aggregations, library_fails) ==
    IF aggregations = <<>> THEN None
    ELSE IF ~build_aggregation_request(aggregations, EmptyMap).some THEN None
    ELSE collector_search(handle, q, docs,
                          build_aggregation_request(aggregations, EmptyMap).v,
                          library_fails)

with_aggregations(result, aggregations) ==
    [ok |-> result.ok, hits |-> result.hits, total |-> result.total,
     aggregations |-> aggregations]

\* search_internal with the aggregation list of the request: the hits are
\* collected first, and an error there ends the search; the aggregations are
\* run on the same query afterwards.
search_with_options(handle, docs, index_rules, groups, req, aggregations, library_fails) ==
    IF ~search_internal(handle, docs, index_rules, groups, req).ok
    THEN with_aggregations(SearchErr, None)
    ELSE with_aggregations(
            search_internal(handle, docs, index_rules, groups, req),
            agg_results(handle,
                        effective_query(handle, docs,
                                        expand_query_with_synonyms(groups, req.query),
                                        query_fields_of(handle, req.fields)).q,
                        docs, aggregations, library_fails))

AggFields == <<TitleField, FieldConfig(W_year, "i64", TRUE, TRUE, "default", TRUE)>>
AggDocs ==
    {Document(<<"1">>, <<FieldValue(W_title, JString(W_wolf)), FieldValue(W_year, JInt(7))>>),
     Document(<<"2">>, <<FieldValue(W_title, JString(W_wolf)), FieldValue(W_year, JInt(3))>>),
     Document(<<"3">>, <<FieldValue(W_title, JString(W_bear)), FieldValue(W_year, JInt(3))>>)}
AggRequests ==
    {AggregationRequest("a", "terms", W_year, None),
     AggregationRequest("b", "count", W_year, None),
     AggregationRequest("a", "histogram", W_year, Some(0)),
     AggregationRequest("b", "median", W_year, None)}
AggLists == UNION {[1..n -> AggRequests] : n \in 0..MaxAggs}
AggSearches ==
    {SearchRequest(query, limit, 0, <<>>, NoSort) :
        query \in {W_wolf, W_title \o <<":">>}, limit \in {0, 2}}

InitAgg ==
    /\ EngineNew
    /\ StoreNew
    /\ NameIdle
    /\ ThreadsIdle
    /\ ClientIdle

AggCreateIndex ==
    /\ CreateIndex(BOOKS, AggFields)
    /\ UNCHANGED <<nameVars, storeVars, threadVars, clientVars>>

AggAddDocuments ==
    /\ BOOKS \in DOMAIN indices
    /\ replies = <<>>
    /\ Len(disk[BOOKS].docs) < MaxDocs
    /\ \E doc \in AggDocs : AddDocuments(BOOKS, <<doc>>)
    /\ UNCHANGED <<nameVars, storeVars, threadVars, clientVars>>

\* The search that ends the behaviour, with an aggregation list; the reply is kept
\* next to the reply of the same request without aggregations on the same commit
AggSearch ==
    /\ BOOKS \in DOMAIN indices
    /\ replies = <<>>
    /\ \E req \in AggSearches, aggregations \in AggLists, library_fails \in BOOLEAN :
          replies' =
            <<[req |-> req, aggregations |-> aggregations, library_fails |-> library_fails,
               with |-> search_with_options(indices[BOOKS], disk[BOOKS].docs, <<>>, <<>>,
                                            req, aggregations, library_fails),
               without |-> search_with_options(indices[BOOKS], disk[BOOKS].docs, <<>>,
                                               <<>>, req, <<>>, FALSE)]>>
    /\ UNCHANGED <<nameVars, storeVars, threadVars, engineVars, client>>

NextAgg == AggCreateIndex \/ AggAddDocuments \/ AggSearch

SpecAgg == InitAgg /\ [][NextAgg]_vars

\* The aggregation of the request failed: a kind outside the supported ones,
\* or a collector that returned an error
AggregationFailed(r) ==
    \/ \E k \in DOMAIN r.aggregations :
            r.aggregations[k].agg_type \notin SupportedAggregations
    \/ r.library_fails
    \/ \E k \in DOMAIN r.aggregations :
            /\ r.aggregations[k].agg_type = "histogram"
            /\ r.aggregations[k].interval = Some(0)
            /\ \A j \in DOMAIN r.aggregations :
                  j > k => r.aggregations[j].name # r.aggregations[k].name

\* C22: a search whose aggregations fail (an unsupported kind in the list, or
\* a failing collector) succeeds whenever the same search without
\* aggregations does, with the same hits and total, and with aggregations null.
C22_AggregationFailureContained ==
    \A k \in DOMAIN replies :
        (replies[k].aggregations # <<>> /\ AggregationFailed(replies[k]))
            => /\ replies[k].with.ok = replies[k].without.ok
               /\ replies[k].with.hits = replies[k].without.hits
               /\ replies[k].with.total = replies[k].without.total
               /\ replies[k].with.aggregations = None

\* A search that matched two documents with an unsupported kind behind a
\* supported one in its list
C22_Witness ==
    /\ replies # <<>>
    /\ Len(replies[1].aggregations) = 2
    /\ replies[1].aggregations[1].agg_type = "terms"
    /\ replies[1].aggregations[2].agg_type = "median"
    /\ replies[1].with.ok
    /\ Len(replies[1].with.hits) = 2
    /\ replies[1].with.aggregations = None

(***************************************************************************)
(* The field configurations of a handle after a restart (SpecSchema)       *)
(***************************************************************************)
\* C23: after a restart the handle that load_indices rebuilds for an index
\* holds, for every declared field, the declared configuration: the same
\* name, type, stored, indexed, analyzer and fast.
C23_ConfigRoundTrip ==
    (client.restarted /\ BOOKS \in DOMAIN indices /\ client.declared # <<>>)
        => /\ Len(indices[BOOKS].field_configs) = Len(client.declared)
           /\ \A k \in DOMAIN client.declared :
                 indices[BOOKS].field_configs[k] = client.declared[k]

(***************************************************************************)
(* SpecLimit: the search handler, which clamps the limit of the request    *)
(***************************************************************************)
MAX_PAGINATION_LIMIT == 1000

clamp_pagination_limit_off(limit) == limit

\* clamp_pagination_limit
clamp_pagination_limit(limit) == Min(limit, MAX_PAGINATION_LIMIT)

\* handlers::search for an index name that passes validate_index_name: the
\* limit is clamped, the engine searches with the clamped limit, and the
\* response reports the clamped limit and the offset of the request
search_handler(index_name, payload) ==
    LET limit == clamp_pagination_limit(payload.limit)
        result == search(index_name, [payload EXCEPT !.limit = limit])
    IN  IF ~result.ok THEN [status |-> 500, total |-> 0, offset |-> 0, limit |-> 0,
                            has_more |-> FALSE, hits |-> <<>>]
        ELSE [status |-> 200, total |-> result.total, offset |-> payload.offset,
              limit |-> limit,
              has_more |-> payload.offset + Len(result.hits) < result.total,
              hits |-> result.hits]

LimitInputs == {1, 2, MAX_PAGINATION_LIMIT - 1, MAX_PAGINATION_LIMIT,
                MAX_PAGINATION_LIMIT + 1, 2 * MAX_PAGINATION_LIMIT}
LimitPayloads ==
    {SearchRequest(query, limit, offset, <<>>, sort) :
        query \in {W_wolf, W_bear}, limit \in LimitInputs, offset \in {0, 1},
        sort \in {NoSort, SortOption(W_year, "Asc")}}

InitLimit ==
    /\ EngineNew
    /\ StoreNew
    /\ NameIdle
    /\ ThreadsIdle
    /\ ClientIdle

LimitCreateIndex ==
    /\ CreateIndex(BOOKS, AggFields)
    /\ UNCHANGED <<nameVars, storeVars, threadVars, clientVars>>

LimitAddDocuments ==
    /\ BOOKS \in DOMAIN indices
    /\ replies = <<>>
    /\ Len(disk[BOOKS].docs) < MaxDocs
    /\ \E doc \in AggDocs : AddDocuments(BOOKS, <<doc>>)
    /\ UNCHANGED <<nameVars, storeVars, threadVars, clientVars>>

LimitAddPinnedRules ==
    /\ replies = <<>>
    /\ BOOKS \notin DOMAIN pinned_rules
    /\ \E rule \in PageRules : AddPinnedRules(BOOKS, <<rule>>)
    /\ UNCHANGED <<nameVars, storeVars, threadVars, clientVars>>

\* The search request that ends the behaviour
LimitSearch ==
    /\ BOOKS \in DOMAIN indices
    /\ replies = <<>>
    /\ \E payload \in LimitPayloads :
          replies' = <<[payload |-> payload, response |-> search_handler(BOOKS, payload)]>>
    /\ UNCHANGED <<nameVars, storeVars, threadVars, engineVars, client>>

NextLimit == LimitCreateIndex \/ LimitAddDocuments \/ LimitAddPinnedRules \/ LimitSearch

SpecLimit == InitLimit /\ [][NextLimit]_vars

\* C24: every successful search response reports the requested limit cut to
\* 1000 and holds at most that many hits, with and without a matching pinned
\* rule and a sort.
C24_LimitClamped ==
    \A k \in DOMAIN replies :
        replies[k].response.status = 200 =>
            /\ replies[k].response.limit =
                    (IF replies[k].payload.limit > 1000 THEN 1000
                     ELSE replies[k].payload.limit)
            /\ Len(replies[k].response.hits) <= replies[k].response.limit

\* A sorted search of limit 1 under a rule that pins two documents, both of
\* which match, has returned one hit; and a search that asked for more than
\* the maximum has been answered
C24_Witness ==
    /\ replies # <<>>
    /\ replies[1].response.status = 200
    /\ replies[1].payload.limit = 1
    /\ replies[1].payload.sort.some
    /\ Len(get_pinned_doc_ids(get_or_default(pinned_rules, BOOKS),
                              replies[1].payload.query)) = 2
    /\ replies[1].response.total = 2
    /\ Len(replies[1].response.hits) = 1

C24_WitnessClamped ==
    /\ replies # <<>>
    /\ replies[1].response.status = 200
    /\ replies[1].payload.limit = 2 * MAX_PAGINATION_LIMIT
    /\ replies[1].response.limit = MAX_PAGINATION_LIMIT
    /\ Len(replies[1].response.hits) = 2

(***************************************************************************)
(* SpecTermSet: build_query on queries of the form title:IN[t1,t2]         *)
(***************************************************************************)
MaxTerms == 2

TermSetItems == {<<"F", "o", "o">>, <<"f", "o", "o">>, <<"B", "A", "R">>,
                 <<" ", "B", "A", "R">>, <<"b", "a", "r", " ">>, W_wolf}
TermSetItemLists == UNION {[1..n -> TermSetItems] : n \in 1..MaxTerms}
TermSetHandle == IndexHandle(create_index_schema(<<TitleField>>).schema, <<TitleField>>)

\* The query title:IN[t1,t2,...] for a list of items
TermSetQueryString(items) == W_title \o <<":", "I", "N", "[">> \o join(items, <<",">>) \o <<"]">>

InitTermSet ==
    /\ EngineNew
    /\ StoreNew
    /\ NameIdle
    /\ ThreadsIdle
    /\ replies = <<>>
    /\ \E items \in TermSetItemLists : client = [items |-> items]

\* build_query on the query as written
TermSetBuild ==
    /\ replies = <<>>
    /\ replies' = <<[expanded |-> FALSE,
                     query |-> build_query(TermSetHandle, TermSetQueryString(client.items),
                                           {W_title})]>>
    /\ UNCHANGED <<nameVars, storeVars, threadVars, engineVars, client>>

\* build_query as search_internal calls it: on the query that
\* expand_query_with_synonyms returns (here for an index without synonyms)
TermSetExpandBuild ==
    /\ replies = <<>>
    /\ replies' = <<[expanded |-> TRUE,
                     query |-> build_query(TermSetHandle,
                                           expand_query_with_synonyms(
                                                <<>>, TermSetQueryString(client.items)),
                                           {W_title})]>>
    /\ UNCHANGED <<nameVars, storeVars, threadVars, engineVars, client>>

NextTermSet == TermSetBuild \/ TermSetExpandBuild

SpecTermSet == InitTermSet /\ [][NextTermSet]_vars

\* C25: the term-set query emitted for title:IN[t1,t2,...] holds exactly the
\* items, trimmed and in lower case, so that IN[Foo, BAR] and IN[foo,bar]
\* compile to the same term set.
C25_TermSetLowercased ==
    \A k \in DOMAIN replies :
        /\ replies[k].query.ok
        /\ replies[k].query.q.kind = "TermSet"
        /\ Range(replies[k].query.q.terms) =
                {to_lowercase(trim(client.items[i])) : i \in DOMAIN client.items}

(***************************************************************************)
(* SpecRegistry: create-index, add-documents and delete-document requests  *)
(* on two indexes, one after the other, and a restart of the server        *)
(***************************************************************************)
MaxRegistryRequests == 4

RegistryIndexes == {BOOKS, FILMS}
RegistryBatches == {<<TitleDoc(<<"1">>, W_wolf)>>,
                    <<TitleDoc(<<"1">>, W_wolf), TitleDoc(<<"2">>, W_bear)>>}

\* collect_document_ids: the id of every live document of the last commit
collect_document_ids(docs) == [k \in DOMAIN docs |-> id_of(docs[k])]

\* main, after load_indices: the loaded names are inserted into the registry
\* where they are missing, then the rows of documents of every loaded index
\* are rebuilt from the ids the engine collects, index after index in the
\* order load_indices read the directories (loaded)
RECURSIVE rebuild_documents(_, _, _)
rebuild_documents(store, dirs, loaded) ==
    IF loaded = <<>> THEN store
    ELSE rebuild_documents(
            reset_index_documents(store, Head(loaded),
                                  collect_document_ids(dirs[Head(loaded)].docs)),
            dirs, Tail(loaded))

startup_rebuild(store, dirs, loaded) ==
    rebuild_documents(sync_indices_from_disk(store, Range(loaded)), dirs, loaded)

\* The orders in which read_dir may list a set of directories
Orders(names) ==
    {order \in [1..Cardinality(names) -> names] : Range(order) = names}

InitRegistry ==
    /\ EngineNew
    /\ StoreNew
    /\ NameIdle
    /\ ThreadsIdle
    /\ replies = <<>>
    /\ client = [requests |-> 0, restarts |-> 0]

RegistryRequest(status) ==
    /\ client.requests < MaxRegistryRequests
    /\ client' = [client EXCEPT !.requests = @ + 1]
    /\ replies' = <<status>>
    /\ UNCHANGED <<nameVars, threadVars>>

RegistryCreateIndex ==
    \E name \in RegistryIndexes, status \in Statuses :
        /\ create_index_handler(name, <<TitleField>>, status)
        /\ RegistryRequest(status)

RegistryAddDocuments ==
    \E name \in RegistryIndexes, documents \in RegistryBatches, status \in Statuses :
        /\ add_documents_handler(name, documents, status)
        /\ RegistryRequest(status)

RegistryDeleteDocument ==
    \E name \in RegistryIndexes, doc_id \in {<<"1">>, <<"2">>}, status \in Statuses :
        /\ delete_document_handler(name, doc_id, status)
        /\ RegistryRequest(status)

\* The server is stopped and started: SearchEngine::new, load_indices and the
\* rebuild of the registry, whose file is kept across the restart
RegistryRestart ==
    /\ client.restarts < MaxRestarts
    /\ client' = [client EXCEPT !.restarts = @ + 1]
    /\ indices' = load_indices(disk)
    /\ synonyms' = load_side_car(files, SYNONYMS_JSON)
    /\ pinned_rules' = load_side_car(files, PINNED_RULES_JSON)
    /\ \E loaded \in Orders(DOMAIN disk) :
          metadata_store' = startup_rebuild(metadata_store, disk, loaded)
    /\ UNCHANGED <<nameVars, threadVars, disk, files, replies>>

NextRegistry ==
    \/ RegistryCreateIndex
    \/ RegistryAddDocuments
    \/ RegistryDeleteDocument
    \/ RegistryRestart

SpecRegistry == InitRegistry /\ [][NextRegistry]_vars

\* The distinct ids of the live documents of an index
LiveIds(name) == {id_of(disk[name].docs[k]) : k \in DOMAIN disk[name].docs}

\* C26: between requests, the document_count the registry lists for every
\* index is the number of distinct ids of the live documents of that index.
C26_RegistryCounts ==
    \A name \in DOMAIN list_indices(metadata_store) :
        name \in DOMAIN disk =>
            list_indices(metadata_store)[name] = Cardinality(LiveIds(name))

(***************************************************************************)
(* SpecConsistency: create-index and delete-index requests of two threads, *)
(* each handler calling the engine and then the registry                   *)
(***************************************************************************)
MaxHandlerCalls == 3

IdleHandler == [pc |-> "idle", call |-> "none", name |-> "", status |-> 0]

InitConsistency ==
    /\ EngineNew
    /\ StoreNew
    /\ NameIdle
    /\ ClientIdle
    /\ threads = [t \in Threads |-> IdleHandler]
    /\ locks = [readers |-> {}, writer |-> "free", handle_writer |-> "free"]
    /\ commits = <<>>
    /\ acked = [calls |-> 0]

HandlerCall(t) == threads[t].pc = "idle" /\ acked.calls < MaxHandlerCalls

\* handlers::create_index, SearchEngine::create_index up to the insertion:
\* create_dir_all and Index::create_in_dir, which fails when the directory
\* holds an index; the handler then answers 500
ConsCreateFs(t, name) ==
    /\ HandlerCall(t)
    /\ IF name \in DOMAIN disk
       THEN /\ threads' = [threads EXCEPT ![t] =
                    [IdleHandler EXCEPT !.call = "create_index", !.name = name,
                                        !.status = 500]]
            /\ UNCHANGED disk
       ELSE /\ threads' = [threads EXCEPT ![t] =
                    [IdleHandler EXCEPT !.pc = "insert", !.call = "create_index",
                                        !.name = name]]
            /\ disk' = insert(disk, name,
                    [schema |-> create_index_schema(<<TitleField>>).schema, docs |-> <<>>])
    /\ acked' = [acked EXCEPT !.calls = @ + 1]
    /\ UNCHANGED <<nameVars, storeVars, clientVars, indices, pinned_rules, synonyms, files,
                   locks, commits>>

\* SearchEngine::create_index, the insertion under the write lock
ConsCreateInsert(t) ==
    /\ threads[t].pc = "insert"
    /\ write_lock_free(locks)
    /\ indices' = insert(indices, threads[t].name,
            IndexHandle(create_index_schema(<<TitleField>>).schema, <<TitleField>>))
    /\ threads' = [threads EXCEPT ![t].pc = "registry_create"]
    /\ UNCHANGED <<nameVars, storeVars, clientVars, disk, pinned_rules, synonyms, files,
                   locks, commits, acked>>

\* handlers::create_index, metadata_store.create_index: 201, or 500 when the
\* registry has the name
ConsCreateRegistry(t) ==
    /\ threads[t].pc = "registry_create"
    /\ IF metadata_create_index(metadata_store, threads[t].name).some
       THEN /\ metadata_store' = metadata_create_index(metadata_store, threads[t].name).v
            /\ threads' = [threads EXCEPT ![t].pc = "idle", ![t].status = 201]
       ELSE /\ UNCHANGED metadata_store
            /\ threads' = [threads EXCEPT ![t].pc = "idle", ![t].status = 500]
    /\ UNCHANGED <<nameVars, clientVars, engineVars, locks, commits, acked>>

\* handlers::delete_index, SearchEngine::delete_index: self.indices.write()
\* and indices.remove(index_name)
ConsDeleteLock(t, name) ==
    /\ HandlerCall(t)
    /\ write_lock_free(locks)
    /\ locks' = [locks EXCEPT !.writer = t]
    /\ indices' = remove(indices, name)
    /\ threads' = [threads EXCEPT ![t] =
            [IdleHandler EXCEPT !.pc = "remove_dir", !.call = "delete_index",
                                !.name = name]]
    /\ acked' = [acked EXCEPT !.calls = @ + 1]
    /\ UNCHANGED <<nameVars, storeVars, clientVars, disk, pinned_rules, synonyms, files,
                   commits>>

\* SearchEngine::delete_index: remove_dir_all when the path exists, and the
\* return, which drops the write guard
ConsDeleteRemoveDir(t) ==
    /\ threads[t].pc = "remove_dir"
    /\ disk' = remove(disk, threads[t].name)
    /\ locks' = [locks EXCEPT !.writer = "free"]
    /\ threads' = [threads EXCEPT ![t].pc = "registry_delete"]
    /\ UNCHANGED <<nameVars, storeVars, clientVars, indices, pinned_rules, synonyms, files,
                   commits, acked>>

\* handlers::delete_index, metadata_store.delete_index
ConsDeleteRegistry(t) ==
    /\ threads[t].pc = "registry_delete"
    /\ metadata_store' = metadata_delete_index(metadata_store, threads[t].name)
    /\ threads' = [threads EXCEPT ![t].pc = "idle", ![t].status = 200]
    /\ UNCHANGED <<nameVars, clientVars, engineVars, locks, commits, acked>>

NextConsistency ==
    \/ \E t \in Threads, name \in RegistryIndexes : ConsCreateFs(t, name)
    \/ \E t \in Threads : ConsCreateInsert(t)
    \/ \E t \in Threads : ConsCreateRegistry(t)
    \/ \E t \in Threads, name \in RegistryIndexes : ConsDeleteLock(t, name)
    \/ \E t \in Threads : ConsDeleteRemoveDir(t)
    \/ \E t \in Threads : ConsDeleteRegistry(t)

SpecConsistency == InitConsistency /\ [][NextConsistency]_vars

\* C27: whenever no request is in flight, the names the registry lists are
\* the names of the handle cache.
C27_RegistryEqualsCache ==
    (\A t \in Threads : threads[t].pc = "idle")
        => metadata_store.indices = DOMAIN indices

(***************************************************************************)
(* The windows of a paged search under a pinned rule (SpecPage)            *)
(***************************************************************************)
\* The documents of the index have ids that differ
DistinctIds(docs) ==
    \A i, j \in DOMAIN docs : id_of(docs[i]) = id_of(docs[j]) => i = j

MaxFrameRequests == 6

FrameQueries == {W_ulv, W_wolf}

\* What is stored beside the indexes: the two maps and the side-car files
SideCars == [synonyms |-> synonyms, pinned_rules |-> pinned_rules, files |-> files]

InitFrame ==
    /\ EngineNew
    /\ StoreNew
    /\ NameIdle
    /\ ThreadsIdle
    /\ replies = <<>>
    /\ client = [requests |-> 0, deleted |-> FALSE, kept |-> SideCars]

\* A request is counted and its response kept; deleted and kept do not change
FrameRequest(call, response) ==
    /\ client.requests < MaxFrameRequests
    /\ client' = [client EXCEPT !.requests = @ + 1]
    /\ replies' = <<[call |-> call, response |-> response]>>
    /\ UNCHANGED <<nameVars, threadVars>>

FrameCreateIndex ==
    \E status \in Statuses :
        /\ create_index_handler(BOOKS, <<TitleField>>, status)
        /\ FrameRequest("create_index", status)

FrameAddDocuments ==
    \E doc \in {TitleDoc(<<"1">>, W_wolf), TitleDoc(<<"2">>, W_two \o <<" ">> \o W_wolf)},
       status \in Statuses :
        /\ add_documents_handler(BOOKS, <<doc>>, status)
        /\ FrameRequest("add_documents", status)

\* A mutation of the synonyms or the pinned rules: what a delete_index before
\* it has left is no longer what is stored
FrameMutateSideCar ==
    /\ client.requests < MaxFrameRequests
    /\ \E status \in Statuses :
        /\ \/ add_synonyms_handler(BOOKS, <<SynonymGroup(<<W_wolf, W_ulv>>)>>, status)
           \/ add_pinned_rules_handler(BOOKS, <<PinnedRule(<<W_wolf>>, <<<<"2">>>>)>>, status)
           \/ clear_synonyms_handler(BOOKS, status)
           \/ clear_pinned_rules_handler(BOOKS, status)
        /\ replies' = <<[call |-> "side_car", response |-> status]>>
    /\ client' = [client EXCEPT !.requests = @ + 1, !.deleted = FALSE]
    /\ UNCHANGED <<nameVars, threadVars>>

\* delete_index; kept for reference: what was stored beside the indexes when
\* the request arrived
FrameDeleteIndex ==
    /\ client.requests < MaxFrameRequests
    /\ \E status \in Statuses :
        /\ delete_index_handler(BOOKS, status)
        /\ replies' = <<[call |-> "delete_index", response |-> status]>>
    /\ client' = [requests |-> client.requests + 1, deleted |-> TRUE, kept |-> SideCars]
    /\ UNCHANGED <<nameVars, threadVars>>

FrameSearch ==
    /\ client.requests < MaxFrameRequests
    /\ \E query \in FrameQueries :
          replies' = <<[call |-> "search", query |-> query,
                        response |-> search_handler(BOOKS, SearchRequest(query, 2, 0, <<>>,
                                                                         NoSort))]>>
    /\ client' = [client EXCEPT !.requests = @ + 1]
    /\ UNCHANGED <<nameVars, threadVars, engineVars, storeVars>>

NextFrame ==
    \/ FrameCreateIndex
    \/ FrameAddDocuments
    \/ FrameMutateSideCar
    \/ FrameDeleteIndex
    \/ FrameSearch

SpecFrame == InitFrame /\ [][NextFrame]_vars

\* C29: delete_index leaves the synonym groups and the pinned rules stored
\* for the name as they were, in memory and in the side-car files, so that a
\* search on an index created later under the same name is answered with the
\* synonyms and pinned rules stored before the deletion.
C29_DeleteIndexFrame ==
    client.deleted =>
        /\ SideCars = client.kept
        /\ (replies[1].call = "search" /\ BOOKS \in DOMAIN indices) =>
              LET result == search_internal(
                               indices[BOOKS], disk[BOOKS].docs,
                               get_or_default(client.kept.pinned_rules, BOOKS),
                               get_or_default(client.kept.synonyms, BOOKS),
                               SearchRequest(replies[1].query, 2, 0, <<>>, NoSort))
              IN  /\ replies[1].response.status = 200
                  /\ replies[1].response.hits = result.hits
                  /\ replies[1].response.total = result.total

\* Synonyms and a pinned rule were stored, the index was deleted and created
\* again, and a search for "ulv" on the new index has found its document,
\* titled "wolf", through the old synonym group
C29_Witness ==
    /\ client.deleted
    /\ BOOKS \in DOMAIN synonyms
    /\ BOOKS \in DOMAIN indices
    /\ replies[1].call = "search"
    /\ replies[1].query = W_ulv
    /\ replies[1].response.status = 200
    /\ replies[1].response.total = 1
    /\ Len(disk[BOOKS].docs) = 1
    /\ synonyms[BOOKS] = <<SynonymGroup(<<W_wolf, W_ulv>>)>>
    /\ \E hit \in Range(replies[1].response.hits) :
          hit.fields[W_title].s = W_wolf

(***************************************************************************)
(* SpecLocks: the locks of the engine. Every call of SearchEngine is the   *)
(* sequence of its lock operations and of the steps between them; a call   *)
(* that fails returns at once, and its guards are dropped.                 *)
(***************************************************************************)
MaxLockCalls == 3

\* The four locks: SearchEngine.indices, IndexHandle.writer of the index,
\* SearchEngine.synonyms and SearchEngine.pinned_rules
LockNames == {"indices", "writer", "synonyms", "pinned_rules"}

LockOp(op, lock) == [op |-> op, lock |-> lock]
Read(lock) == LockOp("read", lock)
Write(lock) == LockOp("write", lock)
Unlock(lock) == LockOp("unlock", lock)
\* indices.get(index_name).ok_or_else(..)?
Lookup == LockOp("lookup", "none")
\* A call of the library or the file system followed by ?
Fallible == LockOp("fallible", "none")
Insert == LockOp("insert", "none")
Remove == LockOp("remove", "none")

\* add_synonyms, clear_synonyms, add_pinned_rules, clear_pinned_rules: the map
\* is changed under the write lock, the guard is dropped, then save_* takes
\* the read lock, writes the file and returns
mutate_side_car(lock) ==
    <<Write(lock), Unlock(lock), Read(lock), Fallible, Unlock(lock)>>

\* add_documents and delete_document: the read lock of the map, the handle,
\* the write lock of its writer, the writer calls, the commit
write_documents_writer_first ==
    <<Write("writer"), Read("indices"), Lookup, Fallible, Fallible,
      Unlock("writer"), Unlock("indices")>>

write_documents ==
    <<Read("indices"), Lookup, Write("writer"), Fallible, Fallible,
      Unlock("writer"), Unlock("indices")>>

\* suggest, get_index_stats, get_document_count, collect_document_ids
read_index == <<Read("indices"), Lookup, Fallible, Unlock("indices")>>

LockCalls == {"create_index", "delete_index", "add_documents", "delete_document",
              "search", "suggest", "get_index_stats",
              "add_synonyms", "get_synonyms", "clear_synonyms",
              "add_pinned_rules", "get_pinned_rules", "clear_pinned_rules"}

\* The lock operations of a call, in program order
program(call) ==
    CASE call = "create_index" ->
            <<Fallible, Write("indices"), Insert, Unlock("indices")>>
      [] call = "delete_index" ->
            <<Write("indices"), Remove, Fallible, Unlock("indices")>>
      [] call \in {"add_documents", "delete_document"} -> write_documents
      [] call = "search" ->
            <<Read("pinned_rules"), Unlock("pinned_rules"),
              Read("synonyms"), Unlock("synonyms")>> \o read_index
      [] call \in {"suggest", "get_index_stats"} -> read_index
      [] call \in {"add_synonyms", "clear_synonyms"} -> mutate_side_car("synonyms")
      [] call = "get_synonyms" -> <<Read("synonyms"), Unlock("synonyms")>>
      [] call \in {"add_pinned_rules", "clear_pinned_rules"} ->
            mutate_side_car("pinned_rules")
      [] call = "get_pinned_rules" -> <<Read("pinned_rules"), Unlock("pinned_rules")>>

\* An early return (?): the guards of the call are dropped
held_after_error(held) == <<>>

IdleLock == [call |-> "none", prog |-> <<>>, held |-> <<>>]

\* The state of the locks, read off what the threads hold
LocksOf(ths) ==
    [lock \in LockNames |->
        [readers |-> {t \in Threads : Read(lock) \in Range(ths[t].held)},
         writer |-> {t \in Threads : Write(lock) \in Range(ths[t].held)}]]

InitLocks ==
    /\ EngineNew
    /\ StoreNew
    /\ NameIdle
    /\ ClientIdle
    /\ threads = [t \in Threads |-> IdleLock]
    /\ locks = LocksOf(threads)
    /\ commits = <<>>
    /\ acked = [calls |-> 0]

\* RwLock::read returns when no writer holds the lock, RwLock::write when
\* nobody holds it
CanLock(o) ==
    CASE o.op = "read" -> locks[o.lock].writer = {}
      [] o.op = "write" -> locks[o.lock].writer = {} /\ locks[o.lock].readers = {}
      [] OTHER -> TRUE

\* A thread enters a call
LockCall(t, call) ==
    /\ threads[t].call = "none"
    /\ acked.calls < MaxLockCalls
    /\ threads' = [threads EXCEPT ![t] =
            [call |-> call, prog |-> program(call), held |-> <<>>]]
    /\ acked' = [acked EXCEPT !.calls = @ + 1]
    /\ UNCHANGED <<nameVars, storeVars, clientVars, engineVars, locks, commits>>

\* The thread after the operation at the head of its program
Advanced(th, held) ==
    IF Len(th.prog) = 1 THEN [call |-> "none", prog |-> <<>>, held |-> held]
    ELSE [th EXCEPT !.prog = Tail(@), !.held = held]

\* The thread after an early return
Returned_early(th) == [call |-> "none", prog |-> <<>>, held |-> held_after_error(th.held)]

\* A thread takes the next step of its call that succeeds
LockStep(t) ==
    /\ threads[t].call # "none"
    /\ CanLock(Head(threads[t].prog))
    /\ LET th == threads[t]
           o == Head(th.prog)
       IN  /\ o.op = "lookup" => BOOKS \in DOMAIN indices
           /\ threads' = [threads EXCEPT ![t] =
                    Advanced(th, CASE o.op \in {"read", "write"} -> Append(th.held, o)
                                   [] o.op = "unlock" ->
                                        SelectSeq(th.held, LAMBDA h : h.lock # o.lock)
                                   [] OTHER -> th.held)]
           /\ indices' = CASE o.op = "insert" ->
                                insert(indices, BOOKS,
                                       IndexHandle(create_index_schema(<<TitleField>>).schema,
                                                   <<TitleField>>))
                           [] o.op = "remove" -> remove(indices, BOOKS)
                           [] OTHER -> indices
    /\ locks' = LocksOf(threads')
    /\ UNCHANGED <<nameVars, storeVars, clientVars, disk, pinned_rules, synonyms, files,
                   commits, acked>>

\* A lookup that finds no handle, or a library or file system call that
\* returns Err: the call returns
LockFail(t) ==
    /\ threads[t].call # "none"
    /\ \/ Head(threads[t].prog).op = "fallible"
       \/ Head(threads[t].prog).op = "lookup" /\ BOOKS \notin DOMAIN indices
    /\ threads' = [threads EXCEPT ![t] = Returned_early(threads[t])]
    /\ locks' = LocksOf(threads')
    /\ UNCHANGED <<nameVars, storeVars, clientVars, engineVars, commits, acked>>

NextLocks ==
    \/ \E t \in Threads, call \in LockCalls : LockCall(t, call)
    \/ \E t \in Threads : LockStep(t)
    \/ \E t \in Threads : LockFail(t)

SpecLocks == InitLocks /\ [][NextLocks]_vars

\* The scheduler runs every thread that can take a step, and a library or
\* file system call returns (with Ok or with Err)
FairLocks ==
    SpecLocks /\ \A t \in Threads : WF_vars(LockStep(t) \/ LockFail(t))

\* The thread waits for a lock
Waits(t) ==
    /\ threads[t].call # "none"
    /\ ~CanLock(Head(threads[t].prog))

\* The thread holds the lock in a mode that keeps o from being granted
Blocks(u, o) ==
    \/ Write(o.lock) \in Range(threads[u].held)
    \/ o.op = "write" /\ Read(o.lock) \in Range(threads[u].held)

LockOrder ==
    \A t \in Threads :
        LET held == [k \in DOMAIN threads[t].held |-> threads[t].held[k].lock]
        IN  held \in {<<>>, <<"indices">>, <<"indices", "writer">>,
                      <<"synonyms">>, <<"pinned_rules">>}

NoWaitCycle ==
    \A t, u \in Threads :
        ~(/\ Waits(t) /\ Blocks(u, Head(threads[t].prog))
          /\ Waits(u) /\ Blocks(t, Head(threads[u].prog)))

\* C30: locks are nested only as the map lock then the writer lock of a
\* handle, no two threads wait for each other, and every call returns with
\* all its locks released.
C30_DeadlockFree ==
    /\ [](LockOrder /\ NoWaitCycle)
    /\ \A t \in Threads :
          (threads[t].call # "none") ~> (threads[t].call = "none" /\ threads[t].held = <<>>)

\* One thread holds the map lock and the writer lock of the handle inside
\* add_documents while the other waits for the map lock in delete_index
C30_Witness ==
    \E t, u \in Threads :
        /\ threads[t].call = "add_documents"
        /\ threads[t].held = <<Read("indices"), Write("writer")>>
        /\ threads[u].call = "delete_index"
        /\ Waits(u)

\* The ids of the documents the query of a request matches
MatchingIds(r) ==
    LET handle == indices[BOOKS]
        docs == disk[BOOKS].docs
        query == effective_query(handle, docs, r.req.query, query_fields_of(handle, <<>>))
    IN  {id_of(docs[p]) : p \in matching(handle, query.q, docs)}

====
